---- MODULE Spec2Model ----
(***************************************************************************)
(* A model of maxscale::RoutingWorker (server/core/routingworker.cc): the  *)
(* per-worker DCB book-keeping (m_dcbs), the zombie queue (m_zombies), the *)
(* persistent connection pool (m_persistent_entries_by_server), the        *)
(* eviction guard (m_evicting), the per-tick housekeeping (epoll_tick) and *)
(* the timeout scan (process_timeouts).                                    *)
(*                                                                         *)
(* A handler of the worker runs to completion on the worker's thread, so   *)
(* every action below is one whole handler.  The handlers call each other  *)
(* and all of them mutate the worker; they are written as operators that   *)
(* take the program state as a record `st` and return the new one.         *)
(***************************************************************************)
EXTENDS Integers, Sequences, FiniteSets, TLC

\* ------------------------------------------------------------- bounds
NWorkers == 2
NServers == 1
NModules == 3
MaxSessions == 1
MaxClients == 1
MaxBackends == 2
MaxNow == 2
MaxPoolMax == 2
MaxAge == 1
MaxClock == 11
MaxTurns == 21
MaxThreads == 6
MaxPicks == 16
PickThreads == 3
MaxCalls == 2
NListening == 4
NConnections == 8
MaxBacklog == 2
WORKER_ABSENT_ID == -1
INT_MAX == 2147483647
INT_MIN == -INT_MAX - 1
MaxTimeout == 1
MaxWriteq == 1

Workers == 0 .. (NWorkers - 1)
Servers == 1 .. NServers
\* The DCBs: every worker has MaxClients slots for the client DCBs it accepts,
\* and the workers share MaxBackends slots for backend DCBs.
ClientsOf(w) == (w * MaxClients + 1) .. (w * MaxClients + MaxClients)
ClientIds == 1 .. (NWorkers * MaxClients)
BackendIds == (NWorkers * MaxClients + 1) .. (NWorkers * MaxClients + MaxBackends)
DcbIds == ClientIds \cup BackendIds

VARIABLES
    dcb,                            \* DCB id -> the DCB object
    m_dcbs,                         \* worker -> set of DCBs in the regular book-keeping
    m_zombies,                      \* worker -> sequence of DCBs to be destroyed
    m_persistent_entries_by_server, \* worker -> server -> sequence of PersistentEntry
    m_evicting,                     \* worker -> BOOLEAN
    srv,                            \* server -> settings and shared counters
    now,                            \* time(nullptr), seconds
    mxs_clock,                      \* mxs_clock(), heartbeats of 100 milliseconds
    m_next_timeout_check,           \* worker -> heartbeat of the next timeout scan
    service,                        \* conn_idle_timeout and net_write_timeout, seconds
    hangups,                        \* history: the hangups the last tick triggered
    wstate,                         \* worker -> "created" | "running" | "failed" | "finished"
    aborted,                        \* the process has crashed on undefined behaviour
    lastOp,                         \* history: the handler that ran last and what it returned
    this_unit,                      \* the unit variables of routingworker.cc
    heap,                           \* the ids of the RoutingWorker objects that exist
    id_generator,                   \* the static counter of pick_worker, an int
    mailbox,                        \* index in ppWorkers -> sequence of posted messages
    executing,                      \* index in ppWorkers -> the message its loop is running
    sem,                            \* caller -> count of the Semaphore on its stack
    call,                           \* caller -> the dispatch call it is in
    runs,                           \* history: the executions of the tasks, in order
    listener,                       \* the shared epoll instance and its listening socket
    current_worker_id,              \* thread -> this_thread.current_worker_id
    m_sessions                      \* worker -> the ids of the sessions in its registry

poolVars == <<dcb, m_dcbs, m_zombies, m_persistent_entries_by_server, m_evicting,
              srv, now, mxs_clock, m_next_timeout_check, service, hangups, wstate>>

unitVars == <<this_unit, heap, id_generator>>

dispatchVars == <<mailbox, executing, sem, call, runs>>

threadVars == <<current_worker_id, m_sessions>>

vars == <<poolVars, aborted, lastOp, unitVars, dispatchVars, listener, threadVars>>

\* A freed (or never allocated) DCB slot.
FreeDcb ==
    [role |-> "NONE", state |-> "DISCONNECTED", owner |-> 0, server |-> 0,
     session |-> 0, handler |-> "protocol", hanged_up |-> FALSE, open |-> FALSE,
     last_read |-> 0, last_write |-> 0, writeq_len |-> 0, close_reason |-> "NONE"]

\* What the model keeps of a backend DCB once DCB::close has handed it to the
\* zombie queue: no handler reads its other fields any more.
ClosedDcb(pDcb) ==
    [FreeDcb EXCEPT !.role = pDcb.role, !.owner = pDcb.owner, !.server = pDcb.server]

NoOp == [op |-> "none", w |-> 0, rv |-> 0]

Op(name, w, rv) == [op |-> name, w |-> w, rv |-> rv]

\* The program state handed through the handlers.  `valid`, `established` and
\* `nfail` are the answers of the collaborators the handler will consult:
\* session_valid_for_pool per session, protocol()->established() per backend
\* DCB, and how many reuse_connection calls fail before one succeeds.
\* `n_current` and `n_from_pool` are the server counters of these names,
\* counted from the value they have when the handler is entered; `destroyed`
\* is the order of the call_destroy calls and `refused` the DCBs that
\* can_be_destroyed was asked about while m_evicting was set; `log` are the
\* calls made on the modules and the query classifier, in order; `reentered`
\* tells that evict_dcbs or evict_dcb was entered with m_evicting set, against
\* their mxb_assert(!m_evicting).
St(validOf, nfail) ==
    [dcb |-> dcb, m_dcbs |-> m_dcbs, m_zombies |-> m_zombies,
     pe |-> m_persistent_entries_by_server, m_evicting |-> m_evicting,
     srv |-> srv, m_next_timeout_check |-> m_next_timeout_check, hangups |-> {},
     mxs_clock |-> mxs_clock,
     ub |-> FALSE, valid |-> validOf.valid,
     established |-> validOf.established, nfail |-> nfail,
     called |-> "none", after_drain |-> 0, destroyed |-> <<>>,
     n_current |-> [s \in Servers |-> 0], n_from_pool |-> [s \in Servers |-> 0],
     refused |-> {}, current_worker_id |-> current_worker_id, log |-> <<>>,
     reentered |-> FALSE]

Oracles == [valid : [ClientIds -> BOOLEAN], established : [BackendIds -> BOOLEAN]]

Oracle(valid, established) ==
    [valid |-> [c \in ClientIds |-> valid], established |-> [b \in BackendIds |-> established]]

AllValid == Oracle(TRUE, TRUE)

\* F of the value of v, v being evaluated once.
With(v, F(_)) == CHOOSE r \in {F(x) : x \in {v}} : TRUE

\* The DCBs held by the entries of a pool.
PoolDcbs(entries) == {entries[i].dcb : i \in 1 .. Len(entries)}

\* The position of DCB d in the sequence q, 0 if it is not in q.
PositionIn(q, d) ==
    IF \E i \in 1..Len(q) : q[i] = d
    THEN CHOOSE i \in 1..Len(q) : q[i] = d
    ELSE 0

SeqWithout(q, i) == [j \in 1 .. (Len(q) - 1) |-> IF j < i THEN q[j] ELSE q[j + 1]]

\* ------------------------------------------------- the handlers

RECURSIVE DCB_close(_, _, _)

\* mxb::atomic::add_limited: whether value + 1 stays within limit (then the
\* caller stores value + 1).
add_limited(value, limit) == value + 1 <= limit

\* Server::persistent_conns_enabled
persistent_conns_enabled(sv) == sv.persistpoolmax > 0

\* RoutingWorker::destroy: the DCB is destroyed at the next zombie drain.
destroy(st, w, d) == [st EXCEPT !.m_zombies[w] = Append(@, d)]

\* RoutingWorker::add
add(st, w, d) == [st EXCEPT !.m_dcbs[w] = @ \cup {d}]

\* RoutingWorker::remove.  Erasing the end iterator (the DCB is not in m_dcbs)
\* is undefined behaviour: the handler is marked and goes on with m_dcbs as is.
remove(st0, w, d) ==
    With(st0, LAMBDA st :
        IF d \in st.m_dcbs[w]
        THEN [st EXCEPT !.m_dcbs[w] = @ \ {d}]
        ELSE [st EXCEPT !.ub = TRUE])

\* RoutingWorker::close_pooled_dcb
close_pooled_dcb(st0, w, d) ==
    With(st0, LAMBDA st :
        LET st1 == [st EXCEPT !.m_dcbs[w] = @ \cup {d}]
        IN  DCB_close(IF st.dcb[d].state = "POLLING"
                      THEN [st1 EXCEPT !.dcb[d].state = "NOPOLLING"]
                      ELSE st1,
                      w, d))

RECURSIVE close_pooled_dcbs(_, _, _)
\* The loop of evict_dcbs over to_be_evicted.
close_pooled_dcbs(st, w, to_be_evicted) ==
    IF to_be_evicted = <<>>
    THEN st
    ELSE close_pooled_dcbs(close_pooled_dcb(st, w, Head(to_be_evicted)), w,
                           Tail(to_be_evicted))

\* must_evict with the age of the entry left out of the scan.
must_evict_no_expiry(st, sv, entry, evict, count) ==
    LET hanged_up == st.dcb[entry.dcb].hanged_up
        expired == evict = "ALL"
        too_many == count > sv.persistpoolmax
    IN  hanged_up \/ expired \/ too_many

\* must_evict with an entry expired as soon as its age reaches persistmaxtime.
must_evict_at_age(st, sv, entry, evict, count) ==
    LET hanged_up == st.dcb[entry.dcb].hanged_up
        expired == (evict = "ALL") \/ (now - entry.created >= sv.persistmaxtime)
        too_many == count > sv.persistpoolmax
    IN  hanged_up \/ expired \/ too_many

\* Whether the scan of evict_dcbs evicts the entry, `count` entries having been
\* retained before it.
must_evict(st, sv, entry, evict, count) ==
    LET hanged_up == st.dcb[entry.dcb].hanged_up
        expired == (evict = "ALL") \/ (now - entry.created > sv.persistmaxtime)
        too_many == count > sv.persistpoolmax
    IN  hanged_up \/ expired \/ too_many

RECURSIVE evict_scan(_, _, _, _, _)
\* The scan of evict_dcbs over the entries left: acc.keep are the entries
\* retained so far, acc.out the DCBs to be evicted, in the order found.
evict_scan(st, sv, entries, evict, acc0) ==
    With(acc0, LAMBDA acc :
        IF entries = <<>>
        THEN acc
        ELSE IF must_evict(st, sv, Head(entries), evict, Len(acc.keep))
             THEN evict_scan(st, sv, Tail(entries), evict,
                             [acc EXCEPT !.out = Append(@, Head(entries).dcb)])
             ELSE evict_scan(st, sv, Tail(entries), evict,
                             [acc EXCEPT !.keep = Append(@, Head(entries))]))

\* evict_dcbs that returns with m_evicting still set.
evict_dcbs_keeps_flag(st0, w, s, evict) ==
    With([st0 EXCEPT !.reentered = @ \/ st0.m_evicting[w]], LAMBDA st :
        With(evict_scan(st, st.srv[s], st.pe[w][s],
                        IF ~st.srv[s].running THEN "ALL" ELSE evict,
                        [keep |-> <<>>, out |-> <<>>]),
             LAMBDA r :
                LET st1 == [st EXCEPT !.m_evicting[w] = TRUE,
                                      !.pe[w][s] = r.keep,
                                      !.srv[s].n_persistent = @ - Len(r.out)]
                IN  [st |-> close_pooled_dcbs(st1, w, r.out), count |-> Len(r.keep)]))

\* int RoutingWorker::evict_dcbs(SERVER*, Evict): [st, count].
evict_dcbs(st0, w, s, evict) ==
    With([st0 EXCEPT !.reentered = @ \/ st0.m_evicting[w]], LAMBDA st :
        With(evict_scan(st, st.srv[s], st.pe[w][s],
                        IF ~st.srv[s].running THEN "ALL" ELSE evict,
                        [keep |-> <<>>, out |-> <<>>]),
             LAMBDA r :
                LET st1 == [st EXCEPT !.m_evicting[w] = TRUE,
                                      !.pe[w][s] = r.keep,
                                      !.srv[s].n_persistent = @ - Len(r.out)]
                    st2 == close_pooled_dcbs(st1, w, r.out)
                IN  [st |-> [st2 EXCEPT !.m_evicting[w] = FALSE],
                     count |-> Len(r.keep)]))

\* The position of the entry holding d, 0 if there is none.
entry_of(entries, d) ==
    IF d \in PoolDcbs(entries)
    THEN CHOOSE i \in 1 .. Len(entries) : entries[i].dcb = d
    ELSE 0

\* RoutingWorker::evict_dcb: what the pool handler does on any event.
evict_dcb(st0, w, d) ==
    With([st0 EXCEPT !.reentered = @ \/ st0.m_evicting[w]], LAMBDA st :
        LET s == st.dcb[d].server
            i == entry_of(st.pe[w][s], d)
            st1 == [st EXCEPT !.m_evicting[w] = TRUE]
            st2 == IF i = 0
                   THEN [st1 EXCEPT !.ub = TRUE]
                   ELSE [st1 EXCEPT !.pe[w][s] = SeqWithout(@, i)]
            st3 == close_pooled_dcb(st2, w, d)
        IN  [st3 EXCEPT !.m_evicting[w] = FALSE])

\* poolable without the question whether the protocol session is established.
poolable_unestablished(st, d) ==
    LET pDcb == st.dcb[d]
        sv == st.srv[pDcb.server]
    IN  /\ pDcb.state = "POLLING"
        /\ pDcb.session # 0
        /\ st.valid[pDcb.session]
        /\ sv.persistpoolmax > 0
        /\ sv.running
        /\ ~pDcb.hanged_up

\* The conditions of can_be_destroyed that come before the eviction.
poolable(st, d) ==
    LET pDcb == st.dcb[d]
        sv == st.srv[pDcb.server]
    IN  /\ pDcb.state = "POLLING"
        /\ st.established[d]
        /\ pDcb.session # 0
        /\ st.valid[pDcb.session]
        /\ sv.persistpoolmax > 0
        /\ sv.running
        /\ ~pDcb.hanged_up

\* to_pool without the handler changed to the pool handler.
to_pool_keeps_handler(st, w, d) ==
    LET s == st.dcb[d].server
        st1 == [st EXCEPT !.srv[s].n_persistent = @ + 1,
                          !.dcb[d].session = 0,
                          !.pe[w][s] = Append(@, [dcb |-> d, created |-> now])]
    IN  [remove(st1, w, d) EXCEPT !.n_current[s] = @ - 1]

\* to_pool with the entry put at the front of the pool.
to_pool_front(st, w, d) ==
    LET s == st.dcb[d].server
        st1 == [st EXCEPT !.srv[s].n_persistent = @ + 1,
                          !.dcb[d].session = 0,
                          !.dcb[d].handler = "pool",
                          !.pe[w][s] = <<[dcb |-> d, created |-> now]>> \o @]
    IN  [remove(st1, w, d) EXCEPT !.n_current[s] = @ - 1]

\* The body of can_be_destroyed once add_limited has succeeded.
to_pool(st, w, d) ==
    LET s == st.dcb[d].server
        st1 == [st EXCEPT !.srv[s].n_persistent = @ + 1,
                          !.dcb[d].session = 0,
                          !.dcb[d].handler = "pool",
                          !.pe[w][s] = Append(@, [dcb |-> d, created |-> now])]
    IN  [remove(st1, w, d) EXCEPT !.n_current[s] = @ - 1]

\* can_be_destroyed with a plain increment of n_persistent, not a limited one.
can_be_destroyed_plain_add(st0, w, d) ==
    With(st0, LAMBDA st :
        IF st.m_evicting[w]
        THEN [st |-> [st EXCEPT !.refused = @ \cup {d}], rv |-> TRUE]
        ELSE IF ~poolable(st, d)
             THEN [st |-> st, rv |-> TRUE]
             ELSE With(evict_dcbs(st, w, st.dcb[d].server, "EXPIRED"), LAMBDA e :
                    LET s == st.dcb[d].server
                        persistpoolmax == st.srv[s].persistpoolmax
                    IN  IF e.count < persistpoolmax
                        THEN [st |-> to_pool(e.st, w, d), rv |-> FALSE]
                        ELSE [st |-> e.st, rv |-> TRUE]))

\* can_be_destroyed with the retained count compared one too low.
can_be_destroyed_one_less(st0, w, d) ==
    With(st0, LAMBDA st :
        IF st.m_evicting[w]
        THEN [st |-> [st EXCEPT !.refused = @ \cup {d}], rv |-> TRUE]
        ELSE IF ~poolable(st, d)
             THEN [st |-> st, rv |-> TRUE]
             ELSE With(evict_dcbs(st, w, st.dcb[d].server, "EXPIRED"), LAMBDA e :
                    LET s == st.dcb[d].server
                        persistpoolmax == st.srv[s].persistpoolmax
                    IN  IF /\ e.count + 1 < persistpoolmax
                           /\ add_limited(e.st.srv[s].n_persistent, persistpoolmax)
                        THEN [st |-> to_pool(e.st, w, d), rv |-> FALSE]
                        ELSE [st |-> e.st, rv |-> TRUE]))

\* can_be_destroyed going on to the pooling when m_evicting is set.
can_be_destroyed_unguarded(st0, w, d) ==
    With(IF st0.m_evicting[w] THEN [st0 EXCEPT !.refused = @ \cup {d}] ELSE st0,
         LAMBDA st :
        IF ~poolable(st, d)
        THEN [st |-> st, rv |-> TRUE]
        ELSE With(evict_dcbs(st, w, st.dcb[d].server, "EXPIRED"), LAMBDA e :
               LET s == st.dcb[d].server
                   persistpoolmax == st.srv[s].persistpoolmax
               IN  IF /\ e.count < persistpoolmax
                      /\ add_limited(e.st.srv[s].n_persistent, persistpoolmax)
                   THEN [st |-> to_pool(e.st, w, d), rv |-> FALSE]
                   ELSE [st |-> e.st, rv |-> TRUE]))

\* bool RoutingWorker::can_be_destroyed(BackendDCB*): [st, rv].
can_be_destroyed(st0, w, d) ==
    With(st0, LAMBDA st :
        IF st.m_evicting[w]
        THEN [st |-> [st EXCEPT !.refused = @ \cup {d}], rv |-> TRUE]
        ELSE IF ~poolable(st, d)
             THEN [st |-> st, rv |-> TRUE]
             ELSE With(evict_dcbs(st, w, st.dcb[d].server, "EXPIRED"), LAMBDA e :
                    LET s == st.dcb[d].server
                        persistpoolmax == st.srv[s].persistpoolmax
                    IN  IF /\ e.count < persistpoolmax
                           /\ add_limited(e.st.srv[s].n_persistent, persistpoolmax)
                        THEN [st |-> to_pool(e.st, w, d), rv |-> FALSE]
                        ELSE [st |-> e.st, rv |-> TRUE]))

\* DCB::close.  A backend DCB is offered to the pool (can_be_destroyed); a DCB
\* that is to be destroyed is handed to the worker's zombie queue.
DCB_close(st0, w, d) ==
    With(st0, LAMBDA st :
        IF ~st.dcb[d].open
        THEN st
        ELSE IF st.dcb[d].role = "BACKEND"
             THEN With(can_be_destroyed(st, w, d), LAMBDA r :
                        IF r.rv
                        THEN destroy([r.st EXCEPT !.dcb[d] = ClosedDcb(@)], w, d)
                        ELSE r.st)
             ELSE destroy([st EXCEPT !.dcb[d].open = FALSE], w, d))

\* The reuse-failure branch of get_backend_dcb_from_pool.
reuse_failed(st0, w, d) ==
    With(st0, LAMBDA st :
        LET st1 == [st EXCEPT !.m_evicting[w] = TRUE]
            st2 == DCB_close(IF st.dcb[d].state = "POLLING"
                             THEN [st1 EXCEPT !.dcb[d].state = "NOPOLLING"]
                             ELSE st1,
                             w, d)
        IN  [st2 EXCEPT !.m_evicting[w] = FALSE])

RECURSIVE pool_loop(_, _, _, _)
\* pool_loop taking the entry at the back of the pool, not the one at the front.
pool_loop_back(st0, w, s, session) ==
    With(st0, LAMBDA st :
        IF st.pe[w][s] = <<>>
        THEN [st |-> st, dcb |-> 0]
        ELSE LET n == Len(st.pe[w][s])
                 d == st.pe[w][s][n].dcb
                 st1 == [st EXCEPT !.pe[w][s] = SubSeq(@, 1, n - 1),
                                   !.srv[s].n_persistent = @ - 1,
                                   !.dcb[d].handler = "protocol",
                                   !.dcb[d].session = session]
             IN  IF st.nfail = 0
                 THEN [st |-> [st1 EXCEPT !.n_from_pool[s] = @ + 1,
                                          !.n_current[s] = @ + 1],
                       dcb |-> d]
                 ELSE pool_loop([reuse_failed(st1, w, d) EXCEPT !.nfail = @ - 1],
                                w, s, session))

\* pool_loop that leaves the loop at the first reuse_connection that fails.
pool_loop_gives_up(st0, w, s, session) ==
    With(st0, LAMBDA st :
        IF st.pe[w][s] = <<>>
        THEN [st |-> st, dcb |-> 0]
        ELSE LET d == Head(st.pe[w][s]).dcb
                 st1 == [st EXCEPT !.pe[w][s] = Tail(@),
                                   !.srv[s].n_persistent = @ - 1,
                                   !.dcb[d].handler = "protocol",
                                   !.dcb[d].session = session]
             IN  IF st.nfail = 0
                 THEN [st |-> [st1 EXCEPT !.n_from_pool[s] = @ + 1,
                                          !.n_current[s] = @ + 1],
                       dcb |-> d]
                 ELSE [st |-> [reuse_failed(st1, w, d) EXCEPT !.nfail = @ - 1],
                       dcb |-> 0])

\* The while loop of get_backend_dcb_from_pool: [st, dcb], dcb = 0 for nullptr.
\* st.nfail is the number of reuse_connection calls that fail from here on.
pool_loop(st0, w, s, session) ==
    With(st0, LAMBDA st :
        IF st.pe[w][s] = <<>>
        THEN [st |-> st, dcb |-> 0]
        ELSE LET d == Head(st.pe[w][s]).dcb
                 st1 == [st EXCEPT !.pe[w][s] = Tail(@),
                                   !.srv[s].n_persistent = @ - 1,
                                   !.dcb[d].handler = "protocol",
                                   !.dcb[d].session = session]
             IN  IF st.nfail = 0
                 THEN [st |-> [st1 EXCEPT !.n_from_pool[s] = @ + 1,
                                          !.n_current[s] = @ + 1],
                       dcb |-> d]
                 ELSE pool_loop([reuse_failed(st1, w, d) EXCEPT !.nfail = @ - 1],
                                w, s, session))

\* get_backend_dcb_from_pool without the eviction of the expired entries.
get_backend_dcb_from_pool_no_evict(st, w, s, session) ==
    With(pool_loop(st, w, s, session), LAMBDA r :
        IF r.dcb # 0
        THEN [st |-> [r.st EXCEPT !.m_dcbs[w] = @ \cup {r.dcb}], dcb |-> r.dcb]
        ELSE r)

\* RoutingWorker::get_backend_dcb_from_pool: [st, dcb].
get_backend_dcb_from_pool(st, w, s, session) ==
    With(pool_loop(evict_dcbs(st, w, s, "EXPIRED").st, w, s, session), LAMBDA r :
        IF r.dcb # 0
        THEN [st |-> [r.st EXCEPT !.m_dcbs[w] = @ \cup {r.dcb}], dcb |-> r.dcb]
        ELSE r)

\* An unused DCB slot among ids, 0 if there is none (the allocation fails).
FreeSlot(st, ids) ==
    IF \E d \in ids : st.dcb[d].role = "NONE"
    THEN CHOOSE d \in ids :
            /\ st.dcb[d].role = "NONE"
            /\ \A x \in ids : st.dcb[x].role = "NONE" => d <= x
    ELSE 0

\* BackendDCB::connect: a new backend DCB in the worker's book-keeping, or
\* nullptr (0) when the connection cannot be made.
connect(st0, w, s, session, ok) ==
    With(st0, LAMBDA st :
        LET d == FreeSlot(st, BackendIds)
        IN  IF ~ok \/ d = 0
            THEN [st |-> st, dcb |-> 0]
            ELSE [st |-> add([st EXCEPT !.dcb[d] =
                                [FreeDcb EXCEPT !.role = "BACKEND", !.state = "POLLING",
                                                !.owner = w, !.server = s,
                                                !.session = session, !.open = TRUE]],
                             w, d),
                  dcb |-> d])

\* get_backend_dcb that goes to the pool whatever the server allows.
get_backend_dcb_always_pool(st0, w, s, session, ok) ==
    With(st0, LAMBDA st :
        With(get_backend_dcb_from_pool(st, w, s, session),
             LAMBDA p :
                IF p.dcb # 0
                THEN [st |-> p.st, dcb |-> p.dcb, from_pool |-> TRUE]
                ELSE With(connect(p.st, w, s, session, ok), LAMBDA c :
                        [st |-> c.st, dcb |-> c.dcb, from_pool |-> FALSE])))

\* RoutingWorker::get_backend_dcb: [st, dcb, from_pool].
get_backend_dcb(st0, w, s, session, ok) ==
    With(st0, LAMBDA st :
        With(IF persistent_conns_enabled(st.srv[s]) /\ st.srv[s].running
             THEN get_backend_dcb_from_pool(st, w, s, session)
             ELSE [st |-> st, dcb |-> 0],
             LAMBDA p :
                IF p.dcb # 0
                THEN [st |-> p.st, dcb |-> p.dcb, from_pool |-> TRUE]
                ELSE With(connect(p.st, w, s, session, ok), LAMBDA c :
                        [st |-> c.st, dcb |-> c.dcb, from_pool |-> FALSE])))

\* The open backend DCBs of worker w that belong to a session.
BackendsOf(st, w, session) ==
    {b \in BackendIds : /\ st.dcb[b].role = "BACKEND"
                        /\ st.dcb[b].owner = w
                        /\ st.dcb[b].session = session
                        /\ st.dcb[b].open}

RECURSIVE close_backends(_, _, _)
\* The session of a client DCB that is destroyed closes its backend DCBs.
close_backends(st0, w, session) ==
    With(st0, LAMBDA st :
        LET bs == BackendsOf(st, w, session)
        IN  IF bs = {}
            THEN st
            ELSE close_backends(DCB_close(st, w, CHOOSE x \in bs : \A y \in bs : x <= y),
                                w, session))

\* DCB::Manager::call_destroy: the final closing of a DCB.  It may cause other
\* DCBs to be registered in the zombie queue.
call_destroy(st0, w, d) ==
    With(st0, LAMBDA st :
        LET st1 == IF st.dcb[d].role = "CLIENT" THEN close_backends(st, w, d) ELSE st
            st2 == remove(st1, w, d)
        IN  [st2 EXCEPT !.dcb[d] = FreeDcb, !.destroyed = Append(@, d)])

RECURSIVE delete_zombies(_, _)
\* delete_zombies taking the DCB at the front of m_zombies, not the one at the
\* back.
delete_zombies_front(st0, w) ==
    With(st0, LAMBDA st :
        IF st.m_zombies[w] = <<>>
        THEN st
        ELSE LET pDcb == Head(st.m_zombies[w])
                 st1 == [st EXCEPT !.m_zombies[w] = Tail(@)]
             IN  delete_zombies(call_destroy(st1, w, pDcb), w))

\* delete_zombies with an if in the place of the while.
delete_zombies_once(st0, w) ==
    With(st0, LAMBDA st :
        IF st.m_zombies[w] = <<>>
        THEN st
        ELSE LET n == Len(st.m_zombies[w])
                 pDcb == st.m_zombies[w][n]
                 st1 == [st EXCEPT !.m_zombies[w] = SubSeq(@, 1, n - 1)]
             IN  call_destroy(st1, w, pDcb))

\* RoutingWorker::delete_zombies
delete_zombies(st0, w) ==
    With(st0, LAMBDA st :
        IF st.m_zombies[w] = <<>>
        THEN st
        ELSE LET n == Len(st.m_zombies[w])
                 pDcb == st.m_zombies[w][n]
                 st1 == [st EXCEPT !.m_zombies[w] = SubSeq(@, 1, n - 1)]
             IN  delete_zombies(call_destroy(st1, w, pDcb), w))

\* An entry of m_epoll_tick_funcs: a hook that closes nothing (0) or one DCB,
\* if the DCB is still in the regular book-keeping when the hook runs.
tick_func(st0, w, hook) ==
    With(st0, LAMBDA st :
        IF hook # 0 /\ hook \in st.m_dcbs[w] /\ st.dcb[hook].open
        THEN DCB_close(st, w, hook)
        ELSE st)

\* DCB::trigger_hangup_event: a hangup event is synthesized for the DCB.
trigger_hangup_event(st, d, cause) == [st EXCEPT !.hangups = @ \cup {<<d, cause>>}]

\* check_timeouts with the tests of the timeouts against 0 left out.
check_timeouts_unguarded(st0, d) ==
    With(st0, LAMBDA st :
        LET pDcb == st.dcb[d]
            st1 == IF st.mxs_clock - pDcb.last_read > service.conn_idle_timeout * 10
                   THEN trigger_hangup_event([st EXCEPT !.dcb[d].close_reason = "TIMEOUT"],
                                             d, "idle")
                   ELSE st
        IN  IF pDcb.role = "CLIENT" /\ pDcb.state = "POLLING"
            THEN IF /\ pDcb.writeq_len > 0
                    /\ st.mxs_clock - pDcb.last_write > service.net_write_timeout * 10
                 THEN trigger_hangup_event([st1 EXCEPT !.dcb[d].close_reason = "TIMEOUT"],
                                           d, "write")
                 ELSE st1
            ELSE st)

\* The body of the loop with the write timeout tested only where the idle
\* timeout has not expired.
check_timeouts_else(st0, d) ==
    With(st0, LAMBDA st :
        LET pDcb == st.dcb[d]
        IN  IF pDcb.role = "CLIENT" /\ pDcb.state = "POLLING"
            THEN IF /\ service.conn_idle_timeout # 0
                    /\ st.mxs_clock - pDcb.last_read > service.conn_idle_timeout * 10
                 THEN trigger_hangup_event([st EXCEPT !.dcb[d].close_reason = "TIMEOUT"],
                                           d, "idle")
                 ELSE IF /\ service.net_write_timeout # 0
                         /\ pDcb.writeq_len > 0
                         /\ st.mxs_clock - pDcb.last_write > service.net_write_timeout * 10
                      THEN trigger_hangup_event([st EXCEPT !.dcb[d].close_reason = "TIMEOUT"],
                                                d, "write")
                      ELSE st
            ELSE st)

\* The body of the loop of process_timeouts for one DCB of m_dcbs.
check_timeouts(st0, d) ==
    With(st0, LAMBDA st :
        LET pDcb == st.dcb[d]
            st1 == IF /\ service.conn_idle_timeout # 0
                      /\ st.mxs_clock - pDcb.last_read > service.conn_idle_timeout * 10
                   THEN trigger_hangup_event([st EXCEPT !.dcb[d].close_reason = "TIMEOUT"],
                                             d, "idle")
                   ELSE st
        IN  IF pDcb.role = "CLIENT" /\ pDcb.state = "POLLING"
            THEN IF /\ service.net_write_timeout # 0
                    /\ pDcb.writeq_len > 0
                    /\ st.mxs_clock - pDcb.last_write > service.net_write_timeout * 10
                 THEN trigger_hangup_event([st1 EXCEPT !.dcb[d].close_reason = "TIMEOUT"],
                                           d, "write")
                 ELSE st1
            ELSE st)

RECURSIVE scan_dcbs(_, _)
\* The loop of process_timeouts over m_dcbs.
scan_dcbs(st, ds) ==
    IF ds = {}
    THEN st
    ELSE LET d == CHOOSE x \in ds : \A y \in ds : x <= y
         IN  scan_dcbs(check_timeouts(st, d), ds \ {d})

\* process_timeouts with the next scan twenty heartbeats away.
process_timeouts_twenty(st0, w) ==
    With(st0, LAMBDA st :
        IF st.mxs_clock >= st.m_next_timeout_check[w]
        THEN scan_dcbs([st EXCEPT !.m_next_timeout_check[w] = st.mxs_clock + 20],
                       st.m_dcbs[w])
        ELSE st)

\* RoutingWorker::process_timeouts
process_timeouts(st0, w) ==
    With(st0, LAMBDA st :
        IF st.mxs_clock >= st.m_next_timeout_check[w]
        THEN scan_dcbs([st EXCEPT !.m_next_timeout_check[w] = st.mxs_clock + 10],
                       st.m_dcbs[w])
        ELSE st)

\* RoutingWorker::epoll_tick
epoll_tick(st, w, hook) ==
    With(delete_zombies(process_timeouts(st, w), w), LAMBDA st2 :
        tick_func([st2 EXCEPT !.after_drain = Len(st2.m_zombies[w])], w, hook))

RECURSIVE evict_all_servers(_, _, _, _)
\* void RoutingWorker::evict_dcbs(Evict): every server of the map in turn.
evict_all_servers(st, w, evict, s) ==
    IF s > NServers
    THEN st
    ELSE evict_all_servers(evict_dcbs(st, w, s, evict).st, w, evict, s + 1)

\* A call made on a module (or, module 0, on the query classifier) by the
\* thread of worker w, with the current worker id the callee would read.
Called(st, w, name, module) ==
    [st EXCEPT !.log = Append(@, [call |-> name, module |-> module,
                                  id |-> st.current_worker_id[w]])]

RECURSIVE call_modules(_, _, _, _, _)
\* A loop over the modules from the first one to the one before `last`:
\* the function `name` of each is called.
call_modules(st, w, name, module, last) ==
    IF module >= last
    THEN st
    ELSE call_modules(Called(st, w, name, module), w, name, module + 1, last)

\* modules_thread_init that calls thread_finish on the module that failed too.
modules_thread_init_finishes_failed(st, w, fail_at) ==
    IF fail_at = 0
    THEN [st |-> call_modules(st, w, "thread_init", 1, NModules + 1), rv |-> TRUE]
    ELSE [st |-> call_modules(call_modules(st, w, "thread_init", 1, fail_at + 1),
                              w, "thread_finish", 1, fail_at + 1),
          rv |-> FALSE]

\* modules_thread_init: [st, rv].  thread_init of module fail_at returns
\* non-zero (0: of none).
modules_thread_init(st, w, fail_at) ==
    IF fail_at = 0
    THEN [st |-> call_modules(st, w, "thread_init", 1, NModules + 1), rv |-> TRUE]
    ELSE [st |-> call_modules(call_modules(st, w, "thread_init", 1, fail_at + 1),
                              w, "thread_finish", 1, fail_at),
          rv |-> FALSE]

\* modules_thread_finish
modules_thread_finish(st, w) == call_modules(st, w, "thread_finish", 1, NModules + 1)

\* pre_run that leaves the current worker id set when the initialization fails.
pre_run_keeps_id(st0, w, fail_at, qc_ok) ==
    With([st0 EXCEPT !.current_worker_id[w] = w], LAMBDA st :
        With(modules_thread_init(st, w, fail_at), LAMBDA m :
            IF m.rv
            THEN [st |-> Called(m.st, w, "qc_thread_init", 0), rv |-> qc_ok]
            ELSE [st |-> m.st, rv |-> FALSE]))

\* RoutingWorker::pre_run: [st, rv].  qc_ok is what qc_thread_init returns.
pre_run(st0, w, fail_at, qc_ok) ==
    With([st0 EXCEPT !.current_worker_id[w] = w], LAMBDA st :
        With(modules_thread_init(st, w, fail_at), LAMBDA m :
            With(IF m.rv
                 THEN [st |-> Called(m.st, w, "qc_thread_init", 0), rv |-> qc_ok]
                 ELSE [st |-> m.st, rv |-> FALSE],
                 LAMBDA r :
                    IF ~r.rv
                    THEN [r EXCEPT !.st.current_worker_id[w] = WORKER_ABSENT_ID]
                    ELSE r)))

\* post_run that evicts the expired entries only.
post_run_expired(st, w) ==
    With(Called(modules_thread_finish(evict_all_servers(st, w, "EXPIRED", 1), w),
                w, "qc_thread_end", 0),
         LAMBDA st1 : [st1 EXCEPT !.current_worker_id[w] = WORKER_ABSENT_ID])

\* RoutingWorker::post_run
post_run(st, w) ==
    With(Called(modules_thread_finish(evict_all_servers(st, w, "ALL", 1), w),
                w, "qc_thread_end", 0),
         LAMBDA st1 : [st1 EXCEPT !.current_worker_id[w] = WORKER_ABSENT_ID])

\* ------------------------------------------------------- the actions

\* The handler has run to its end with state st.  Where it ran into undefined
\* behaviour the build either went on as modelled or the process died there.
Commit(st0, op) ==
    \E st \in {st0} : \E crash \in (IF st.ub THEN BOOLEAN ELSE {FALSE}) :
        IF crash
        THEN /\ aborted' = TRUE
             /\ UNCHANGED <<dcb, m_dcbs, m_zombies, m_persistent_entries_by_server,
                            m_evicting, srv, m_next_timeout_check, hangups, lastOp>>
             /\ UNCHANGED <<unitVars, dispatchVars, listener, threadVars>>
        ELSE /\ dcb' = st.dcb
             /\ m_dcbs' = st.m_dcbs
             /\ m_zombies' = st.m_zombies
             /\ m_persistent_entries_by_server' = st.pe
             /\ m_evicting' = st.m_evicting
             /\ srv' = st.srv
             /\ m_next_timeout_check' = st.m_next_timeout_check
             /\ hangups' = st.hangups
             /\ lastOp' = IF st.reentered THEN Op("mxb_assert", 0, "!m_evicting") ELSE op
             /\ current_worker_id' = st.current_worker_id
             /\ UNCHANGED <<aborted, unitVars, dispatchVars, listener, m_sessions>>

Running(w) == ~aborted /\ wstate[w] = "running"

\* The DCBs worker w holds in its pools.
Pooled(w) == UNION {PoolDcbs(m_persistent_entries_by_server[w][s]) : s \in Servers}

\* The answers the collaborators can give to a handler of worker w: those about
\* DCBs and sessions the worker cannot ask about are left TRUE.
OraclesFor(w) ==
    {o \in Oracles :
        /\ \A c \in ClientIds : c \notin m_dcbs[w] => o.valid[c]
        /\ \A b \in BackendIds : b \notin m_dcbs[w] => o.established[b]}

\* A client connection is accepted on worker w: a client DCB and its session.
Accept(w) ==
    LET st == St(AllValid, 0)
        d == FreeSlot(st, ClientsOf(w))
    IN  /\ Running(w)
        /\ d # 0
        /\ Commit(add([st EXCEPT !.dcb[d] =
                         [FreeDcb EXCEPT !.role = "CLIENT", !.state = "POLLING",
                                         !.owner = w, !.session = d, !.open = TRUE,
                                         !.last_read = mxs_clock,
                                         !.last_write = mxs_clock]], w, d),
                  Op("accept", w, d))
        /\ UNCHANGED <<now, mxs_clock, service, wstate>>

\* The router of session c asks worker w for a connection to server s.
GetBackendDcb(w, s, c, nfail, ok) ==
    /\ Running(w)
    /\ c \in m_dcbs[w]
    /\ dcb[c].role = "CLIENT"
    /\ dcb[c].open
    /\ nfail <= Len(m_persistent_entries_by_server[w][s])
    /\ \E r \in {get_backend_dcb(St(AllValid, nfail), w, s, c, ok)} :
           Commit(r.st, Op("get_backend_dcb", w,
                           IF r.dcb = 0 THEN "null"
                           ELSE IF r.from_pool THEN "pool" ELSE "connect"))
    /\ UNCHANGED <<now, mxs_clock, service, wstate>>

\* DCB::close is called on a DCB of the regular book-keeping.
CloseDcb(w, d, valid, established) ==
    /\ Running(w)
    /\ d \in m_dcbs[w]
    /\ dcb[d].open
    /\ dcb[d].role = "CLIENT" => valid /\ established
    /\ \E st \in {DCB_close(St(Oracle(valid, established), 0), w, d)} :
           Commit(st, Op("close", w,
                         IF st.dcb[d].open THEN "pooled"
                         ELSE IF dcb[d].role = "BACKEND" /\ valid /\ established
                                 /\ poolable(St(Oracle(valid, established), 0), d)
                              THEN "full"
                              ELSE "zombie"))
    /\ UNCHANGED <<now, mxs_clock, service, wstate>>

Events == {"read", "write", "error", "hangup"}

\* What the protocol of a DCB does on an event: a hangup is noted (the flag is
\* read of backend DCBs only) and the handler may close the DCB.
protocol_handler(st, w, d, ev, close) ==
    LET st1 == IF ev = "hangup" /\ st.dcb[d].role = "BACKEND"
               THEN [st EXCEPT !.dcb[d].hanged_up = TRUE]
               ELSE st
    IN  IF close THEN DCB_close(st1, w, d) ELSE st1

\* DCB::process_events: the event goes to the handler installed in the DCB.
process_events(st, w, d, ev, close) ==
    IF st.dcb[d].handler = "pool"
    THEN evict_dcb([st EXCEPT !.called = "pool"], w, d)
    ELSE protocol_handler([st EXCEPT !.called = "protocol"], w, d, ev, close)

\* A readiness event on a descriptor that worker w polls.
DcbEvent(w, d, ev, close, valid, established) ==
    /\ Running(w)
    /\ d \in m_dcbs[w] \cup Pooled(w)
    /\ dcb[d].open
    /\ dcb[d].state = "POLLING"
    /\ (dcb[d].handler = "pool" \/ dcb[d].role = "CLIENT" \/ ~close) => valid /\ established
    /\ dcb[d].handler = "pool" => ~close
    /\ \E st \in {process_events(St(Oracle(valid, established), 0), w, d, ev, close)} :
           Commit(st, Op("event", w, [d |-> d, pooled |-> d \in Pooled(w),
                                      called |-> st.called]))
    /\ UNCHANGED <<now, mxs_clock, service, wstate>>

\* The tick of worker w's loop; hook is the DCB a tick function closes, if any.
EpollTick(w, o, hook) ==
    /\ Running(w)
    /\ hook # 0 => hook \in m_dcbs[w] /\ dcb[hook].open
    /\ \E st \in {epoll_tick(St(o, 0), w, hook)} :
           Commit(st, Op("epoll_tick", w, [hook |-> hook, after_drain |-> st.after_drain]))
    /\ UNCHANGED <<now, mxs_clock, service, wstate>>

\* evict_dcbs(pServer, evict) called on its own.
EvictDcbs(w, s, evict) ==
    /\ Running(w)
    /\ \E e \in {evict_dcbs(St(AllValid, 0), w, s, evict)} :
           Commit(e.st, Op("evict_dcbs", w, <<s, evict, e.count>>))
    /\ UNCHANGED <<now, mxs_clock, service, wstate>>

\* The thread of worker w is started: pre_run, and the loop if it succeeds.
PreRun(w, fail_at, qc_ok) ==
    /\ ~aborted
    /\ wstate[w] = "created"
    /\ \E r \in {pre_run(St(AllValid, 0), w, fail_at, qc_ok)} :
           /\ Commit(r.st, Op("pre_run", w, [rv |-> r.rv, log |-> r.st.log]))
           /\ wstate' = [wstate EXCEPT ![w] = IF r.rv THEN "running" ELSE "failed"]
    /\ UNCHANGED <<now, mxs_clock, service>>

\* The thread of worker w leaves its loop.
PostRun(w) ==
    /\ Running(w)
    /\ \E st \in {post_run(St(AllValid, 0), w)} :
           Commit(st, Op("post_run", w,
                         [log |-> st.log,
                          zombies |-> m_zombies[w],
                          pools |-> m_persistent_entries_by_server[w],
                          n_persistent |-> [s \in Servers |-> srv[s].n_persistent]]))
    /\ wstate' = [wstate EXCEPT ![w] = IF aborted' THEN @ ELSE "finished"]
    /\ UNCHANGED <<now, mxs_clock, service>>

\* A second passes.
AdvanceTime ==
    /\ ~aborted
    /\ now < MaxNow
    /\ now' = now + 1
    /\ lastOp' = NoOp
    /\ UNCHANGED <<dcb, m_dcbs, m_zombies, m_persistent_entries_by_server,
                   m_evicting, srv, mxs_clock, m_next_timeout_check, service,
                   hangups, wstate, aborted>>
    /\ UNCHANGED <<unitVars, dispatchVars, listener, threadVars>>

\* The monitor sets or clears SERVER_RUNNING.
ServerStatus(s, running) ==
    /\ ~aborted
    /\ srv[s].running # running
    /\ srv' = [srv EXCEPT ![s].running = running]
    /\ lastOp' = NoOp
    /\ UNCHANGED <<dcb, m_dcbs, m_zombies, m_persistent_entries_by_server,
                   m_evicting, now, mxs_clock, m_next_timeout_check, service,
                   hangups, wstate, aborted>>
    /\ UNCHANGED <<unitVars, dispatchVars, listener, threadVars>>

\* The administrator sets persistpoolmax of a server while it is in use.
AlterServer(s, persistpoolmax) ==
    /\ ~aborted
    /\ srv[s].persistpoolmax # persistpoolmax
    /\ srv' = [srv EXCEPT ![s].persistpoolmax = persistpoolmax]
    /\ lastOp' = NoOp
    /\ UNCHANGED <<dcb, m_dcbs, m_zombies, m_persistent_entries_by_server,
                   m_evicting, now, mxs_clock, m_next_timeout_check, service,
                   hangups, wstate, aborted>>
    /\ UNCHANGED <<unitVars, dispatchVars, listener, threadVars>>

\* What worker w holds before a call of add, remove or destroy for DCB d.
Held(w, d) == [d |-> d, dcbs |-> m_dcbs[w], zombies |-> m_zombies[w]]

\* add is called for a DCB that is in m_dcbs already.
AddTwice(w, d) ==
    /\ Running(w)
    /\ d \in m_dcbs[w]
    /\ Commit(add(St(AllValid, 0), w, d), Op("add", w, Held(w, d)))
    /\ UNCHANGED <<now, mxs_clock, service, wstate>>

\* remove is called for a DCB in use that is not in m_dcbs of the worker.
RemoveAbsent(w, d) ==
    /\ Running(w)
    /\ dcb[d].role # "NONE"
    /\ d \notin m_dcbs[w]
    /\ Commit(remove(St(AllValid, 0), w, d), Op("remove", w, Held(w, d)))
    /\ UNCHANGED <<now, mxs_clock, service, wstate>>

\* destroy is called on worker w for an open DCB that another worker owns.
DestroyForeign(w, d) ==
    /\ Running(w)
    /\ dcb[d].open
    /\ dcb[d].owner # w
    /\ PositionIn(m_zombies[w], d) = 0
    /\ Commit(destroy(St(AllValid, 0), w, d), Op("destroy", w, Held(w, d)))
    /\ UNCHANGED <<now, mxs_clock, service, wstate>>

\* The input handler of a client DCB has read from the socket.
ClientRead(w, d) ==
    /\ Running(w)
    /\ d \in m_dcbs[w]
    /\ dcb[d].role = "CLIENT"
    /\ dcb[d].open
    /\ dcb[d].last_read # mxs_clock
    /\ Commit([St(AllValid, 0) EXCEPT !.dcb[d].last_read = mxs_clock], NoOp)
    /\ UNCHANGED <<now, mxs_clock, service, wstate>>

\* A write to a client DCB or the draining of its write queue: q is what is
\* left in the queue.
ClientWrite(w, d, q) ==
    /\ Running(w)
    /\ d \in m_dcbs[w]
    /\ dcb[d].role = "CLIENT"
    /\ dcb[d].open
    /\ Commit([St(AllValid, 0) EXCEPT !.dcb[d].last_write = mxs_clock,
                                      !.dcb[d].writeq_len = q],
              NoOp)
    /\ dcb' # dcb
    /\ UNCHANGED <<now, mxs_clock, service, wstate>>

\* A turn of the loop in which nothing is ready: wait() returns at the tick
\* deadline, one heartbeat later, and the tick runs.
IdleTurn(w) ==
    /\ Running(w)
    /\ mxs_clock < MaxTurns
    /\ \E st \in {epoll_tick([St(AllValid, 0) EXCEPT !.mxs_clock = mxs_clock + 1], w, 0)} :
           Commit(st, Op("epoll_tick", w, [hook |-> 0, after_drain |-> st.after_drain]))
    /\ mxs_clock' = mxs_clock + 1
    /\ UNCHANGED <<now, service, wstate>>

\* A heartbeat of 100 milliseconds passes.
Heartbeat ==
    /\ ~aborted
    /\ mxs_clock < MaxClock
    /\ mxs_clock' = mxs_clock + 1
    /\ lastOp' = NoOp
    /\ UNCHANGED <<dcb, m_dcbs, m_zombies, m_persistent_entries_by_server,
                   m_evicting, srv, now, m_next_timeout_check, service, hangups,
                   wstate, aborted>>
    /\ UNCHANGED <<unitVars, dispatchVars, listener, threadVars>>

\* RoutingWorker::MAIN, the id that stands for the main worker.
MAIN == WORKER_ABSENT_ID

\* A pointer to a RoutingWorker is the id of the object; NULL and a pointer
\* read from outside the array point to none.
NULL == -1
Wild == -2

\* The indexes of the array new RoutingWorker* [MXS_MAX_THREADS]().
Slots == 0 .. (MaxThreads - 1)

\* ppWorkers == NULL: an array without elements.
NoArray == [i \in {} |-> NULL]

\* The unit variables as the program starts.
StaticUnit ==
    [initialized |-> FALSE, nWorkers |-> 0, ppWorkers |-> NoArray,
     next_worker_id |-> 0, epoll_listener_fd |-> -1,
     id_main_worker |-> WORKER_ABSENT_ID, id_min_worker |-> WORKER_ABSENT_ID,
     id_max_worker |-> WORKER_ABSENT_ID, running |-> FALSE]

\* mxb::atomic::add(&g, 1) on an int: two's complement, 32 bits.
Inc32(g) == IF g = INT_MAX THEN INT_MIN ELSE g + 1

\* a % n of C++, which truncates towards zero.
CRem(a, n) == IF a >= 0 \/ a % n = 0 THEN a % n ELSE (a % n) - n

\* int config_threadcount()
config_threadcount == NWorkers

\* What a create() may do: succeed, fail to allocate, or fail to add the
\* listener epoll instance to the epoll instance of the worker.
CreateOutcomes == {"ok", "oom", "epoll"}

\* RoutingWorker::create with the constructor of RoutingWorker, which takes
\* m_id from next_worker_id(): [unit, heap, pWorker].
create(unit, hp, outcome) ==
    IF outcome = "oom"
    THEN [unit |-> unit, heap |-> hp, pWorker |-> NULL]
    ELSE LET id == unit.next_worker_id
             unit1 == [unit EXCEPT !.next_worker_id = Inc32(@)]
         IN  IF outcome = "ok"
             THEN [unit |-> unit1, heap |-> hp \cup {id}, pWorker |-> id]
             ELSE [unit |-> unit1, heap |-> hp, pWorker |-> NULL]

RECURSIVE init_loop(_, _, _, _, _)
\* The for loop of RoutingWorker::init from index i on; the create of index
\* fail_at has the outcome kind, the others succeed.
init_loop(acc0, i, nWorkers, fail_at, kind) ==
    With(acc0, LAMBDA acc :
        IF i >= nWorkers
        THEN acc
        ELSE With(create(acc.unit, acc.heap, IF i = fail_at THEN kind ELSE "ok"), LAMBDA c :
                IF c.pWorker # NULL
                THEN init_loop([unit |-> c.unit,
                                heap |-> c.heap,
                                ppWorkers |-> [acc.ppWorkers EXCEPT ![i] = c.pWorker],
                                id_main_worker |-> IF acc.id_main_worker = WORKER_ABSENT_ID
                                                   THEN c.pWorker
                                                   ELSE acc.id_main_worker,
                                id_min_worker |-> IF c.pWorker < acc.id_min_worker
                                                  THEN c.pWorker
                                                  ELSE acc.id_min_worker,
                                id_max_worker |-> IF c.pWorker > acc.id_max_worker
                                                  THEN c.pWorker
                                                  ELSE acc.id_max_worker],
                               i + 1, nWorkers, fail_at, kind)
                ELSE [acc EXCEPT !.unit = c.unit,
                                 !.heap = c.heap \ {acc.ppWorkers[j] : j \in 0 .. (i - 1)},
                                 !.ppWorkers = NoArray]))

\* bool RoutingWorker::init: [unit, heap, rv].
init(unit, hp, epoll_ok, fail_at, kind) ==
    IF ~epoll_ok
    THEN [unit |-> [unit EXCEPT !.epoll_listener_fd = -1], heap |-> hp, rv |-> unit.initialized]
    ELSE With(init_loop([unit |-> [unit EXCEPT !.epoll_listener_fd = 3],
                         heap |-> hp,
                         ppWorkers |-> [i \in Slots |-> NULL],
                         id_main_worker |-> WORKER_ABSENT_ID,
                         id_min_worker |-> INT_MAX,
                         id_max_worker |-> INT_MIN],
                        0, config_threadcount, fail_at, kind), LAMBDA r :
            IF DOMAIN r.ppWorkers # {}
            THEN [unit |-> [r.unit EXCEPT !.ppWorkers = r.ppWorkers,
                                          !.nWorkers = config_threadcount,
                                          !.id_main_worker = r.id_main_worker,
                                          !.id_min_worker = r.id_min_worker,
                                          !.id_max_worker = r.id_max_worker,
                                          !.initialized = TRUE],
                  heap |-> r.heap, rv |-> TRUE]
            ELSE [unit |-> r.unit, heap |-> r.heap, rv |-> r.unit.initialized])

\* void RoutingWorker::finish: [unit, heap, asserted]; asserted tells whether
\* mxb_assert(pWorker) held for every index of the loop.
finish(unit, hp) ==
    LET ids == unit.id_min_worker .. unit.id_max_worker
    IN  [unit |-> [unit EXCEPT !.ppWorkers = NoArray,
                               !.epoll_listener_fd = 0,
                               !.initialized = FALSE],
         heap |-> hp \ {unit.ppWorkers[i] : i \in ids},
         asserted |-> \A i \in ids : unit.ppWorkers[i] # NULL]

\* RoutingWorker* RoutingWorker::get(int worker_id): [rv, ub]; an index outside
\* the array reads what is not a pointer to a worker.
get(unit, worker_id) ==
    LET id == IF worker_id = MAIN THEN unit.id_main_worker ELSE worker_id
    IN  IF id \in DOMAIN unit.ppWorkers
        THEN [rv |-> unit.ppWorkers[id], ub |-> FALSE]
        ELSE [rv |-> Wild, ub |-> TRUE]

\* The id RoutingWorker::pick_worker computes from the value g that the
\* atomic add returns.
pick_worker_id(unit, g) ==
    unit.id_min_worker + CRem(g, unit.nWorkers)

\* k mod n for the k-th call of pick_worker, k counted from 0, from the value
\* g of the counter: k = g, and k = g + 2^32 once the counter has wrapped.
CallModulo(g, n) ==
    IF g >= 0
    THEN g % n
    ELSE ((g % n) + 2 * ((INT_MAX % n) + 1)) % n

\* A step of the unit: its variables change, the rest stays; undefined
\* behaviour may end the process.
UnitCommit(unit, hp, g, ub, op) ==
    \E crash \in (IF ub THEN BOOLEAN ELSE {FALSE}) :
        /\ aborted' = crash
        /\ this_unit' = IF crash THEN this_unit ELSE unit
        /\ heap' = IF crash THEN heap ELSE hp
        /\ id_generator' = IF crash THEN id_generator ELSE g
        /\ lastOp' = IF crash THEN lastOp ELSE op
        /\ UNCHANGED <<poolVars, dispatchVars, listener, threadVars>>

\* RoutingWorker::init(pNotifier)
UnitInit(epoll_ok, fail_at, kind) ==
    /\ ~aborted
    /\ ~this_unit.initialized
    /\ this_unit.next_worker_id + config_threadcount <= MaxThreads
    /\ \E r \in {init(this_unit, heap, epoll_ok, fail_at, kind)} :
           UnitCommit(r.unit, r.heap, id_generator, FALSE, Op("init", 0, r.rv))

\* RoutingWorker::finish()
UnitFinish ==
    /\ ~aborted
    /\ this_unit.initialized
    /\ \E r \in {finish(this_unit, heap)} :
           UnitCommit(r.unit, r.heap, id_generator, FALSE, Op("finish", 0, r.asserted))

\* RoutingWorker::get(worker_id), for the ids the assertion of get allows.
Get(worker_id) ==
    /\ ~aborted
    /\ this_unit.initialized
    /\ \/ worker_id = MAIN
       \/ worker_id >= this_unit.id_min_worker /\ worker_id <= this_unit.id_max_worker
    /\ \E r \in {get(this_unit, worker_id)} :
           UnitCommit(this_unit, heap, id_generator, r.ub, Op("get", worker_id, r.rv))

\* RoutingWorker::pick_worker(), among the first calls and among those around
\* the 2^31st; what is recorded with the result is the value of the counter.
PickWorker ==
    /\ ~aborted
    /\ this_unit.initialized
    /\ \/ id_generator >= 0 /\ id_generator < MaxPicks
       \/ id_generator >= INT_MAX - 2
       \/ id_generator <= INT_MIN + MaxPicks - 4
    /\ \E r \in {get(this_unit, pick_worker_id(this_unit, id_generator))} :
           UnitCommit(this_unit, heap, Inc32(id_generator), r.ub,
                      Op("pick_worker", id_generator, r.rv))

\* The thread that is no worker: the main thread before it runs its loop, the
\* REST API, a signal handler.
External == -1

Callers == {External}

\* The calls of a behaviour, numbered.
Tags == 1 .. MaxCalls

BroadcastOps == {"broadcast_task", "broadcast_disposable", "broadcast_func", "broadcast_message"}
SeriallyOps == {"execute_serially_task", "execute_serially_func"}
ConcurrentlyOps == {"execute_concurrently_task", "execute_concurrently_func"}
DispatchOps == BroadcastOps \cup SeriallyOps \cup ConcurrentlyOps

NoMsg == [tag |-> 0, sem |-> FALSE]
IdleCall == [op |-> "idle", pc |-> "idle", tag |-> 0, sem |-> FALSE, nWorkers |-> 0,
             i |-> 0, n |-> 0, waited |-> 0]
NoRun == [op |-> "none", tried |-> [s \in Slots |-> 0], accepted |-> {},
          order |-> <<>>, ended |-> {}, returned |-> -1, late |-> FALSE]

\* The dispatch state as a record: the variables and the flag of undefined
\* behaviour.
Ds == [mailbox |-> mailbox, executing |-> executing, sem |-> sem, call |-> call,
       runs |-> runs, ub |-> FALSE]

\* The call returns n.
return(ds, c, n) ==
    [ds EXCEPT !.call[c] = IdleCall,
               !.runs[ds.call[c].tag].returned = n]

\* execute_serially that does not wait between the workers.
after_accept_no_wait(ds, c) ==
    [ds EXCEPT !.call[c].n = @ + 1, !.call[c].i = @ + 1]

\* What follows a submission that succeeded: ++n, which execute_serially
\* does after sem.wait().
after_accept(ds, c) ==
    IF ds.call[c].op \in SeriallyOps
    THEN [ds EXCEPT !.call[c].pc = "wait"]
    ELSE [ds EXCEPT !.call[c].n = @ + 1, !.call[c].i = @ + 1]

\* A loop that gives up at the first worker that turns the submission down.
after_reject_stop(ds, c) == [ds EXCEPT !.call[c].i = ds.call[c].nWorkers]

\* execute_serially that waits on its semaphore after a submission that
\* failed too.
after_reject_waits(ds, c) ==
    IF ds.call[c].op \in SeriallyOps
    THEN [ds EXCEPT !.call[c].pc = "wait"]
    ELSE [ds EXCEPT !.call[c].i = @ + 1]

\* What follows a submission that failed: the next worker.
after_reject(ds, c) == [ds EXCEPT !.call[c].i = @ + 1]

\* Semaphore::wait_n(n) has waited n times.
wait_n_done(cl) == cl.waited = cl.n

\* execute_concurrently that returns what the broadcast returns, without
\* sem.wait_n(n).
loop_end_no_wait(ds0, c) ==
    With(ds0, LAMBDA ds :
        IF ds.call[c].pc = "submit" /\ ds.call[c].i >= ds.call[c].nWorkers
        THEN return(ds, c, ds.call[c].n)
        ELSE ds)

\* The end of the for loop: the broadcasts and execute_serially return n,
\* execute_concurrently goes on to sem.wait_n(n).
loop_end(ds0, c) ==
    With(ds0, LAMBDA ds :
        IF ds.call[c].pc = "submit" /\ ds.call[c].i >= ds.call[c].nWorkers
        THEN IF ds.call[c].op \in ConcurrentlyOps /\ ~wait_n_done(ds.call[c])
             THEN [ds EXCEPT !.call[c].pc = "wait_n"]
             ELSE return(ds, c, ds.call[c].n)
        ELSE ds)

\* pWorker->execute(.., EXECUTE_AUTO) that succeeds: the task runs at once
\* when the caller is the thread of pWorker and is queued otherwise;
\* post_message always queues.
execute_auto(ds, c, pWorker) ==
    LET cl == ds.call[c]
    IN  IF pWorker = c /\ cl.op # "broadcast_message"
        THEN [ds EXCEPT !.runs[cl.tag].accepted = @ \cup {pWorker},
                        !.runs[cl.tag].order = Append(@, pWorker),
                        !.runs[cl.tag].ended = @ \cup {pWorker},
                        !.sem[cl.tag] = IF cl.sem THEN @ + 1 ELSE @]
        ELSE [ds EXCEPT !.mailbox[pWorker] = Append(@, [tag |-> cl.tag, sem |-> cl.sem]),
                        !.runs[cl.tag].accepted = @ \cup {pWorker}]

\* One turn of the for loop of a dispatch function: pWorker = ppWorkers[i] and
\* the submission to it, which the worker accepts (ok) or turns down.
submit(ds0, unit, c, ok) ==
    With(ds0, LAMBDA ds :
        LET cl == ds.call[c]
            pWorker == IF cl.i \in DOMAIN unit.ppWorkers THEN unit.ppWorkers[cl.i] ELSE Wild
        IN  IF pWorker \notin Slots
            THEN [ds EXCEPT !.ub = TRUE]
            ELSE LET ds1 == [ds EXCEPT !.runs[cl.tag].tried[pWorker] = @ + 1]
                 IN  IF ok
                     THEN loop_end(after_accept(execute_auto(ds1, c, pWorker), c), c)
                     ELSE loop_end(after_reject(ds1, c), c))

\* sem.wait() of execute_serially and one wait of sem.wait_n(n), once the
\* semaphore has been posted.
sem_wait(ds0, c) ==
    With(ds0, LAMBDA ds :
        LET cl == ds.call[c]
            ds1 == [ds EXCEPT !.sem[cl.tag] = @ - 1]
        IN  IF cl.pc = "wait"
            THEN loop_end([ds1 EXCEPT !.call[c].pc = "submit",
                                      !.call[c].n = @ + 1,
                                      !.call[c].i = @ + 1], c)
            ELSE With([ds1 EXCEPT !.call[c].waited = @ + 1], LAMBDA ds2 :
                    IF wait_n_done(ds2.call[c])
                    THEN return(ds2, c, ds2.call[c].waited)
                    ELSE ds2))

\* The loop of worker w takes the message at the head of its queue.
message_start(ds, w) ==
    LET msg == Head(ds.mailbox[w])
    IN  [ds EXCEPT !.mailbox[w] = Tail(@),
                   !.executing[w] = msg,
                   !.runs[msg.tag].order = Append(@, w),
                   !.runs[msg.tag].late = @ \/ ds.runs[msg.tag].returned # -1]

\* The task has run on worker w: the worker posts the semaphore, if any.
message_end(ds, w) ==
    LET msg == ds.executing[w]
    IN  [ds EXCEPT !.executing[w] = NoMsg,
                   !.runs[msg.tag].ended = @ \cup {w},
                   !.sem[msg.tag] = IF msg.sem THEN @ + 1 ELSE @]

\* A step of the dispatch: its variables change, the rest stays.
DispatchCommit(ds, op) ==
    \E crash \in (IF ds.ub THEN BOOLEAN ELSE {FALSE}) :
        /\ aborted' = crash
        /\ mailbox' = IF crash THEN mailbox ELSE ds.mailbox
        /\ executing' = IF crash THEN executing ELSE ds.executing
        /\ sem' = IF crash THEN sem ELSE ds.sem
        /\ call' = IF crash THEN call ELSE ds.call
        /\ runs' = IF crash THEN runs ELSE ds.runs
        /\ lastOp' = IF crash THEN lastOp ELSE op
        /\ UNCHANGED <<poolVars, unitVars, listener, threadVars>>

QueryOps == {"get_qc_stats", "mxs_rworker_to_json"}

\* get_qc_stats(id, pStats) and mxs_rworker_to_json(zHost, id) up to their
\* sem.wait(): the worker is looked up, the task is submitted to it (ok: the
\* worker accepts it) and, whatever execute returned, the caller goes on to
\* wait.  get_qc_stats returns false for a worker that does not exist;
\* mxs_rworker_to_json calls execute on the null pointer.
query(ds0, unit, c, id, ok) ==
    With(ds0, LAMBDA ds :
        LET cl == ds.call[c]
            target == get(unit, id)
        IN  IF target.ub \/ (target.rv = NULL /\ cl.op = "mxs_rworker_to_json")
            THEN [ds EXCEPT !.ub = TRUE, !.call[c] = IdleCall]
            ELSE IF target.rv = NULL
                 THEN return(ds, c, 0)
                 ELSE With([ds EXCEPT !.runs[cl.tag].tried[target.rv] = @ + 1], LAMBDA ds1 :
                        [(IF ok THEN execute_auto(ds1, c, target.rv) ELSE ds1)
                            EXCEPT !.call[c].pc = "query_wait"]))

\* sem.wait() of get_qc_stats and mxs_rworker_to_json has returned, and the
\* function returns (true, or the resource).
query_wait(ds, c) ==
    return([ds EXCEPT !.sem[ds.call[c].tag] = @ - 1], c, 1)

\* What the step of caller c returned, if it ended the call.
Returned(ds, c, tag) ==
    IF ds.call[c].pc = "idle"
    THEN Op("return", c, [tag |-> tag, n |-> ds.runs[tag].returned])
    ELSE NoOp

\* Caller c enters a dispatch function: int nWorkers = this_unit.next_worker_id.
Call(c, op, with_sem) ==
    /\ ~aborted
    /\ call[c].pc = "idle"
    /\ op \in SeriallyOps \cup ConcurrentlyOps => with_sem
    /\ op \in {"broadcast_disposable", "broadcast_message"} => ~with_sem
    /\ \E tag \in Tags :
        /\ runs[tag].op = "none"
        /\ \A u \in Tags : u < tag => runs[u].op # "none"
        /\ \E ds \in {loop_end([Ds EXCEPT !.call[c] = [IdleCall EXCEPT
                                                !.op = op, !.pc = "submit", !.tag = tag,
                                                !.sem = with_sem,
                                                !.nWorkers = this_unit.next_worker_id],
                                          !.runs[tag].op = op], c)} :
                DispatchCommit(ds, Returned(ds, c, tag))

\* The next turn of the for loop of caller c.
Submit(c, ok) ==
    /\ ~aborted
    /\ call[c].pc = "submit"
    /\ \E ds \in {submit(Ds, this_unit, c, ok)} :
            DispatchCommit(ds, Returned(ds, c, call[c].tag))

\* Caller c comes out of a wait on its semaphore.
SemWait(c) ==
    /\ ~aborted
    /\ call[c].pc \in {"wait", "wait_n"}
    /\ sem[call[c].tag] > 0
    /\ \E ds \in {sem_wait(Ds, c)} :
            DispatchCommit(ds, Returned(ds, c, call[c].tag))

\* Caller c calls get_qc_stats or mxs_rworker_to_json for the worker of the
\* given id.
Query(c, op, id, ok) ==
    /\ ~aborted
    /\ this_unit.initialized
    /\ call[c].pc = "idle"
    /\ \E tag \in Tags :
        /\ runs[tag].op = "none"
        /\ \A u \in Tags : u < tag => runs[u].op # "none"
        /\ \E ds \in {query([Ds EXCEPT !.call[c] = [IdleCall EXCEPT
                                                !.op = op, !.pc = "query", !.tag = tag,
                                                !.sem = TRUE, !.nWorkers = 1],
                                     !.runs[tag].op = op], this_unit, c, id, ok)} :
                DispatchCommit(ds, Returned(ds, c, tag))

\* Caller c comes out of the sem.wait() of its query.
QueryWait(c) ==
    /\ ~aborted
    /\ call[c].pc = "query_wait"
    /\ sem[call[c].tag] > 0
    /\ \E ds \in {query_wait(Ds, c)} :
            DispatchCommit(ds, Returned(ds, c, call[c].tag))

\* The loop of worker w starts on the next message of its queue.
MessageStart(w) ==
    /\ ~aborted
    /\ w \in heap
    /\ executing[w] = NoMsg
    /\ mailbox[w] # <<>>
    /\ w \in DOMAIN call => call[w].pc = "idle"
    /\ DispatchCommit(message_start(Ds, w), NoOp)

\* The loop of worker w is through with the message.
MessageEnd(w) ==
    /\ ~aborted
    /\ executing[w] # NoMsg
    /\ DispatchCommit(message_end(Ds, w), NoOp)

\* The workers whose epoll instances hold the shared epoll instance.
Listening == 0 .. (NListening - 1)

\* The listening socket with nothing to accept and every worker in its wait.
NoListener ==
    [pending |-> 0, arrived |-> 0, woken |-> {},
     accepted |-> [w \in Listening |-> 0]]

\* handle_epoll_events taking every event there is.
handle_epoll_events_all(l, w) ==
    [l |-> [l EXCEPT !.pending = 0,
                     !.accepted[w] = @ + l.pending,
                     !.woken = @ \ {w}],
     nfds |-> l.pending]

\* RoutingWorker::handle_epoll_events: epoll_wait(epoll_listener_fd, .., 1, 0)
\* extracts one event at most, and the handler of the listener accepts one
\* connection: [l, nfds].
handle_epoll_events(l, w) ==
    LET nfds == IF l.pending > 0 THEN 1 ELSE 0
    IN  [l |-> [l EXCEPT !.pending = @ - nfds,
                         !.accepted[w] = @ + nfds,
                         !.woken = @ \ {w}],
         nfds |-> nfds]

\* A step of the shared listener: its variable changes, the rest stays.
ListenerCommit(l, op) ==
    /\ listener' = l
    /\ lastOp' = op
    /\ UNCHANGED <<poolVars, aborted, unitVars, dispatchVars, threadVars>>

\* A client connects to the listening socket.
Connect ==
    /\ ~aborted
    /\ listener.arrived < NConnections
    /\ listener.pending < MaxBacklog
    /\ ListenerCommit([listener EXCEPT !.pending = @ + 1, !.arrived = @ + 1], NoOp)

\* The wait of worker w returns with the event of the shared epoll instance,
\* which is level-triggered: ready while there is a connection to accept.
Wake(w) ==
    /\ ~aborted
    /\ w \notin listener.woken
    /\ listener.pending > 0
    /\ ListenerCommit([listener EXCEPT !.woken = @ \cup {w}], NoOp)

\* Worker w, woken, handles the event of the shared epoll instance.
HandleEpollEvents(w) ==
    /\ ~aborted
    /\ w \in listener.woken
    /\ \E r \in {handle_epoll_events(listener, w)} :
           ListenerCommit(r.l, Op("handle_epoll_events", w,
                                  [nfds |-> r.nfds, before |-> listener.accepted[w]]))

\* The unit after the init of startup, all creates having succeeded.
\* The threads: that of each worker, and one that runs no worker.
Threads == Workers \cup {External}

SessionIds == 1 .. MaxSessions

\* RoutingWorker::get_current on a thread whose current worker id is id:
\* [rv, ub].
get_current(unit, id) ==
    IF id # WORKER_ABSENT_ID
    THEN get(unit, id)
    ELSE [rv |-> NULL, ub |-> FALSE]

\* A call of pWorker->session_registry() made through the pointer that
\* get_current returned: the registry of that worker, and undefined behaviour
\* with no worker behind the pointer.
session_registry(sessions, pWorker) ==
    IF pWorker \in Workers
    THEN [m |-> sessions[pWorker], ub |-> FALSE]
    ELSE [m |-> {}, ub |-> TRUE]

\* What a function of the session registry leaves: the registries, the value
\* returned and whether the call ran into undefined behaviour.
Registered(sessions, pWorker, m, rv, ub) ==
    [sessions |-> IF ub THEN sessions ELSE [sessions EXCEPT ![pWorker] = m],
     rv |-> rv, ub |-> ub]

\* mxs_rworker_register_session, called on a thread with current worker id id.
mxs_rworker_register_session(unit, sessions, id, session) ==
    With(get_current(unit, id), LAMBDA c :
        With(session_registry(sessions, c.rv), LAMBDA r :
            Registered(sessions, c.rv, r.m \cup {session}, session \notin r.m,
                       c.ub \/ r.ub)))

\* mxs_rworker_deregister_session
mxs_rworker_deregister_session(unit, sessions, id, session) ==
    With(get_current(unit, id), LAMBDA c :
        With(session_registry(sessions, c.rv), LAMBDA r :
            Registered(sessions, c.rv, r.m \ {session}, session \in r.m,
                       c.ub \/ r.ub)))

\* mxs_rworker_find_session looking into the registry of the main worker.
mxs_rworker_find_session_main(unit, sessions, id, session) ==
    With(get(unit, MAIN), LAMBDA c :
        With(session_registry(sessions, c.rv), LAMBDA r :
            Registered(sessions, c.rv, r.m, session \in r.m, c.ub \/ r.ub)))

\* mxs_rworker_find_session: rv is whether a session is returned.
mxs_rworker_find_session(unit, sessions, id, session) ==
    With(get_current(unit, id), LAMBDA c :
        With(session_registry(sessions, c.rv), LAMBDA r :
            Registered(sessions, c.rv, r.m, session \in r.m, c.ub \/ r.ub)))

\* A function of the session registry has returned; where it ran into
\* undefined behaviour the process either died or went on.
SessionCommit(r0, op) ==
    \E r \in {r0} : \E crash \in (IF r.ub THEN BOOLEAN ELSE {FALSE}) :
        /\ aborted' = (aborted \/ crash)
        /\ m_sessions' = IF crash THEN m_sessions ELSE r.sessions
        /\ lastOp' = IF crash THEN lastOp ELSE op
        /\ UNCHANGED <<poolVars, unitVars, dispatchVars, listener, current_worker_id>>

\* The worker whose loop thread t is in, NULL if it is in none.
RunsAs(t) == IF t \in Workers /\ wstate[t] = "running" THEN t ELSE NULL

\* What is known before a function of the session registry is called on
\* thread t for a session.
SessionCall(t, session, r) ==
    [session |-> session, as |-> RunsAs(t), before |-> m_sessions, rv |-> r.rv]

RegisterSession(t, session) ==
    /\ ~aborted
    /\ \E r \in {mxs_rworker_register_session(this_unit, m_sessions,
                                               current_worker_id[t], session)} :
           SessionCommit(r, Op("register_session", t, SessionCall(t, session, r)))

DeregisterSession(t, session) ==
    /\ ~aborted
    /\ \E r \in {mxs_rworker_deregister_session(this_unit, m_sessions,
                                                 current_worker_id[t], session)} :
           SessionCommit(r, Op("deregister_session", t, SessionCall(t, session, r)))

FindSession(t, session) ==
    /\ ~aborted
    /\ \E r \in {mxs_rworker_find_session(this_unit, m_sessions,
                                           current_worker_id[t], session)} :
           SessionCommit(r, Op("find_session", t, SessionCall(t, session, r)))

\* RoutingWorker::get_current is called on thread t.
GetCurrent(t) ==
    /\ ~aborted
    /\ \E c \in {get_current(this_unit, current_worker_id[t])} :
           lastOp' = Op("get_current", t, c.rv)
    /\ UNCHANGED <<poolVars, aborted, unitVars, dispatchVars, listener, threadVars>>

StartedUnit == init(StaticUnit, {}, TRUE, config_threadcount, "ok")

\* Nothing dispatched yet.
NoDispatch ==
    /\ mailbox = [s \in Slots |-> <<>>]
    /\ executing = [s \in Slots |-> NoMsg]
    /\ sem = [tag \in Tags |-> 0]
    /\ call = [c \in Callers |-> IdleCall]
    /\ runs = [tag \in Tags |-> NoRun]

\* The workers created and their loops running; nothing picked, dispatched or
\* accepted yet.
Started ==
    /\ this_unit = StartedUnit.unit
    /\ heap = StartedUnit.heap
    /\ id_generator = 0
    /\ NoDispatch
    /\ listener = NoListener

\* The state after construction, with the configuration of the servers and of
\* the service taken from the given sets; first_check is the heartbeat of the
\* first timeout scan.
Constructed(servers, services, first_check, state) ==
    /\ dcb = [d \in DcbIds |-> FreeDcb]
    /\ m_dcbs = [w \in Workers |-> {}]
    /\ m_zombies = [w \in Workers |-> <<>>]
    /\ m_persistent_entries_by_server = [w \in Workers |-> [s \in Servers |-> <<>>]]
    /\ m_evicting = [w \in Workers |-> FALSE]
    /\ srv \in [Servers -> servers]
    /\ now = 0
    /\ mxs_clock = 0
    /\ m_next_timeout_check = [w \in Workers |-> first_check]
    /\ service \in services
    /\ hangups = {}
    /\ wstate = [w \in Workers |-> state]
    /\ aborted = FALSE
    /\ lastOp = NoOp
    /\ current_worker_id = [t \in Threads |-> IF t \in Workers /\ state = "running"
                                               THEN t
                                               ELSE WORKER_ABSENT_ID]
    /\ m_sessions = [w \in Workers |-> {}]

\* The state after construction with the threads of all workers in their
\* loops.
Construct(servers, services, first_check) ==
    Constructed(servers, services, first_check, "running")

\* A server with the given pool limits, running and with nothing pooled.
ServerConfigs(poolmaxes, maxtimes) ==
    [running : {TRUE}, persistpoolmax : poolmaxes, persistmaxtime : maxtimes,
     n_persistent : {0}]

\* The timeouts of the service: 0, the default, disables one.
ServiceConfigs(timeouts) == [conn_idle_timeout : timeouts, net_write_timeout : timeouts]

\* The workers whose loops run: the main worker, and the others.
Active == {0}

\* The persistent pool, the zombie queue and the tick, with the heartbeat
\* standing still and the timeouts at their default, disabled: the state to
\* start from is that after the first tick of every worker, which only set the
\* deadline of the next timeout scan.
Init ==
    /\ Construct(ServerConfigs(0 .. MaxPoolMax, 0 .. MaxAge), ServiceConfigs({0}), 10)
    /\ Started

\* The state after construction of a service with timeouts and without pools.
TimeoutsInit ==
    /\ Construct(ServerConfigs({0}, {0}), ServiceConfigs(0 .. MaxTimeout), 0)
    /\ Started

Next ==
    \/ \E w \in Active : Accept(w)
    \/ \E w \in Active, s \in Servers, c \in ClientIds, nfail \in 0 .. MaxBackends,
          ok \in BOOLEAN : GetBackendDcb(w, s, c, nfail, ok)
    \/ \E w \in Active, d \in DcbIds, valid \in BOOLEAN, established \in BOOLEAN :
            CloseDcb(w, d, valid, established)
    \/ \E w \in Active, d \in DcbIds, ev \in Events, close \in BOOLEAN,
          valid \in BOOLEAN, established \in BOOLEAN :
            DcbEvent(w, d, ev, close, valid, established)
    \/ \E w \in Active, hook \in {0} \cup DcbIds : \E o \in OraclesFor(w) :
            EpollTick(w, o, hook)
    \/ \E w \in Active, s \in Servers, evict \in {"EXPIRED", "ALL"} : EvictDcbs(w, s, evict)
    \/ AdvanceTime
    \/ \E s \in Servers, running \in BOOLEAN : ServerStatus(s, running)

Spec == Init /\ [][Next]_vars

NextExit ==
    \/ Next
    \/ \E w \in Active : PostRun(w)

SpecExit == Init /\ [][NextExit]_vars

\* The pool of one worker for a server whose persistpoolmax is altered while
\* DCBs are pooled, the collaborators answering favourably.
NextAlter ==
    \/ \E w \in Active : Accept(w)
    \/ \E w \in Active, s \in Servers, c \in ClientIds : GetBackendDcb(w, s, c, 0, TRUE)
    \/ \E w \in Active, d \in DcbIds : CloseDcb(w, d, TRUE, TRUE)
    \/ \E w \in Active : EpollTick(w, AllValid, 0)
    \/ \E w \in Active, s \in Servers : EvictDcbs(w, s, "EXPIRED")
    \/ AdvanceTime
    \/ \E s \in Servers, persistpoolmax \in 0 .. MaxPoolMax : AlterServer(s, persistpoolmax)

SpecAlter == Init /\ [][NextAlter]_vars

\* The book-keeping of a worker with callers that break the rules of add,
\* remove and destroy; assertions are compiled out.
NextMisuse ==
    \/ \E w \in Active : Accept(w)
    \/ \E w \in Active, s \in Servers, c \in ClientIds : GetBackendDcb(w, s, c, 0, TRUE)
    \/ \E w \in Active, d \in DcbIds : CloseDcb(w, d, TRUE, TRUE)
    \/ \E w \in Active : EpollTick(w, AllValid, 0)
    \/ \E w \in Workers, d \in DcbIds : AddTwice(w, d)
    \/ \E w \in Workers, d \in DcbIds : RemoveAbsent(w, d)
    \/ \E w \in Workers, d \in DcbIds : DestroyForeign(w, d)

SpecMisuse == Init /\ [][NextMisuse]_vars

\* The state after construction with no thread started yet.
ThreadsInit ==
    /\ Constructed(ServerConfigs({MaxPoolMax}, {MaxAge}), ServiceConfigs({0}), 10,
                   "created")
    /\ Started

\* The threads of the workers from pre_run to post_run, the session
\* registries, and the pool of one worker.
NextThreads ==
    \/ \E w \in Workers, fail_at \in 0 .. NModules, qc_ok \in BOOLEAN :
            PreRun(w, fail_at, qc_ok)
    \/ \E w \in Workers : PostRun(w)
    \/ \E t \in Threads : GetCurrent(t)
    \/ \E t \in Threads, session \in SessionIds : RegisterSession(t, session)
    \/ \E t \in Threads, session \in SessionIds : DeregisterSession(t, session)
    \/ \E t \in Threads, session \in SessionIds : FindSession(t, session)
    \/ \E w \in Active : Accept(w)
    \/ \E w \in Active, s \in Servers, c \in ClientIds : GetBackendDcb(w, s, c, 0, TRUE)
    \/ \E w \in Active, d \in DcbIds : CloseDcb(w, d, TRUE, TRUE)

SpecThreads == ThreadsInit /\ [][NextThreads]_vars

\* The pools of all workers for the servers they share, the collaborators
\* answering favourably and the clock standing still.
NextWorkers ==
    \/ \E w \in Workers : Accept(w)
    \/ \E w \in Workers, s \in Servers, c \in ClientIds : GetBackendDcb(w, s, c, 0, TRUE)
    \/ \E w \in Workers, d \in DcbIds : CloseDcb(w, d, TRUE, TRUE)
    \/ \E w \in Workers, d \in BackendIds : DcbEvent(w, d, "hangup", FALSE, TRUE, TRUE)
    \/ \E w \in Workers : EpollTick(w, AllValid, 0)

SpecWorkers == Init /\ [][NextWorkers]_vars

\* The timeout scan: client DCBs that read and write while the heartbeat runs.
NextTimeouts ==
    \/ \E w \in Active : Accept(w)
    \/ \E w \in Active, d \in ClientIds : ClientRead(w, d)
    \/ \E w \in Active, d \in ClientIds, q \in 0 .. MaxWriteq : ClientWrite(w, d, q)
    \/ \E w \in Active, d \in ClientIds, close \in BOOLEAN :
            DcbEvent(w, d, "hangup", close, TRUE, TRUE)
    \/ \E w \in Active : EpollTick(w, AllValid, 0)
    \/ Heartbeat

SpecTimeouts == TimeoutsInit /\ [][NextTimeouts]_vars

\* The timeout scan of a loop that ticks at every heartbeat.
NextTicking ==
    \/ \E w \in Active : Accept(w)
    \/ \E w \in Active, d \in ClientIds : ClientRead(w, d)
    \/ \E w \in Active, d \in ClientIds, close \in BOOLEAN :
            DcbEvent(w, d, "hangup", close, TRUE, TRUE)
    \/ \E w \in Active : IdleTurn(w)

SpecTicking == TimeoutsInit /\ [][NextTicking]_vars

\* The unit from the start of the program, and that of a server that has
\* been picking workers for long: init, finish, get and pick_worker.
UnitInitial ==
    /\ Construct(ServerConfigs({0}, {0}), ServiceConfigs({0}), 10)
    /\ NoDispatch
    /\ listener = NoListener
    /\ \/ /\ this_unit = StaticUnit
          /\ heap = {}
          /\ id_generator = 0
       \/ /\ this_unit = StartedUnit.unit
          /\ heap = StartedUnit.heap
          /\ id_generator = MaxPicks

NextUnit ==
    \/ \E epoll_ok \in BOOLEAN, fail_at \in 0 .. config_threadcount,
          kind \in {"oom", "epoll"} : UnitInit(epoll_ok, fail_at, kind)
    \/ UnitFinish
    \/ \E worker_id \in {MAIN} \cup Slots : Get(worker_id)
    \/ PickWorker

SpecUnit == UnitInitial /\ [][NextUnit]_vars

\* The dispatch functions called from a thread that is no worker, the loops
\* of the workers running.
DispatchInitial ==
    /\ Construct(ServerConfigs({0}, {0}), ServiceConfigs({0}), 10)
    /\ Started

NextDispatch ==
    \/ \E c \in Callers, op \in DispatchOps, with_sem \in BOOLEAN : Call(c, op, with_sem)
    \/ \E c \in Callers, ok \in BOOLEAN : Submit(c, ok)
    \/ \E c \in Callers : SemWait(c)
    \/ \E w \in Slots : MessageStart(w)
    \/ \E w \in Slots : MessageEnd(w)

SpecDispatch == DispatchInitial /\ [][NextDispatch]_vars

\* The REST API asks single workers for their statistics and descriptions.
NextQuery ==
    \/ \E c \in Callers, op \in QueryOps, id \in {MAIN} \cup Slots, ok \in BOOLEAN :
            Query(c, op, id, ok)
    \/ \E c \in Callers : QueryWait(c)
    \/ \E w \in Slots : MessageStart(w)
    \/ \E w \in Slots : MessageEnd(w)

SpecQuery == DispatchInitial /\ [][NextQuery]_vars

\* The threads that call execute_serially and execute_concurrently: the
\* workers, from a handler of their loops, and a thread that is no worker.
NestedCallers == Workers \cup {External}

NestedOps == {"execute_serially_task", "execute_concurrently_task"}

\* The workers created and their loops running, no call made yet.
NestedInitial ==
    /\ Construct(ServerConfigs({0}, {0}), ServiceConfigs({0}), 10)
    /\ this_unit = StartedUnit.unit
    /\ heap = StartedUnit.heap
    /\ id_generator = 0
    /\ mailbox = [s \in Slots |-> <<>>]
    /\ executing = [s \in Slots |-> NoMsg]
    /\ sem = [tag \in Tags |-> 0]
    /\ call = [c \in NestedCallers |-> IdleCall]
    /\ runs = [tag \in Tags |-> NoRun]
    /\ listener = NoListener

\* A handler of the loop of worker w, or the thread that is no worker, calls
\* execute_serially or execute_concurrently.
NestedCall(c, op) ==
    /\ c \in Workers => executing[c] = NoMsg
    /\ Call(c, op, TRUE)

\* What the threads do once a call is made: the loops of the callers and of
\* the workers.
NestedProgress ==
    \/ \E c \in NestedCallers, ok \in BOOLEAN : Submit(c, ok)
    \/ \E c \in NestedCallers : SemWait(c)
    \/ \E w \in Slots : MessageStart(w)
    \/ \E w \in Slots : MessageEnd(w)

NextNested ==
    \/ \E c \in NestedCallers, op \in NestedOps : NestedCall(c, op)
    \/ NestedProgress

\* Every thread goes on running: a step that stays possible is taken.
SpecNested == NestedInitial /\ [][NextNested]_vars /\ WF_vars(NestedProgress)

\* The process before RoutingWorker::init: no worker, nothing dispatched.
StartupInitial ==
    /\ Construct(ServerConfigs({0}, {0}), ServiceConfigs({0}), 10)
    /\ this_unit = StaticUnit
    /\ heap = {}
    /\ id_generator = 0
    /\ NoDispatch
    /\ listener = NoListener

\* The dispatch functions a signal handler or the REST API calls at startup.
StartupOps == {"broadcast_message", "execute_serially_task", "execute_concurrently_task"}

\* init of the unit, and the dispatch functions called from a thread that is
\* no worker (a signal handler, the REST API) at any time.
NextStartup ==
    \/ \E epoll_ok \in BOOLEAN, fail_at \in 0 .. config_threadcount,
          kind \in {"oom", "epoll"} : UnitInit(epoll_ok, fail_at, kind)
    \/ \E c \in Callers, op \in StartupOps, with_sem \in BOOLEAN : Call(c, op, with_sem)
    \/ \E c \in Callers, ok \in BOOLEAN : Submit(c, ok)
    \/ \E c \in Callers : SemWait(c)
    \/ \E w \in Slots : MessageStart(w)
    \/ \E w \in Slots : MessageEnd(w)

SpecStartup == StartupInitial /\ [][NextStartup]_vars

\* pick_worker and get between init and finish, early in the life of the
\* server and after some two thousand million picks.
PickInitial ==
    /\ Construct(ServerConfigs({0}, {0}), ServiceConfigs({0}), 10)
    /\ this_unit = StartedUnit.unit
    /\ heap = StartedUnit.heap
    /\ id_generator \in {0, INT_MAX - 2}
    /\ NoDispatch
    /\ listener = NoListener

NextPick ==
    \/ \E worker_id \in {MAIN} \cup Slots : Get(worker_id)
    \/ PickWorker

SpecPick == PickInitial /\ [][NextPick]_vars

\* The unit as RoutingWorker::init leaves it when config_threadcount() is
\* PickThreads and every create succeeds: [unit, heap].
WideUnit ==
    With(init_loop([unit |-> [StaticUnit EXCEPT !.epoll_listener_fd = 3],
                    heap |-> {},
                    ppWorkers |-> [i \in Slots |-> NULL],
                    id_main_worker |-> WORKER_ABSENT_ID,
                    id_min_worker |-> INT_MAX,
                    id_max_worker |-> INT_MIN],
                   0, PickThreads, PickThreads, "ok"), LAMBDA r :
        [unit |-> [r.unit EXCEPT !.ppWorkers = r.ppWorkers,
                                 !.nWorkers = PickThreads,
                                 !.id_main_worker = r.id_main_worker,
                                 !.id_min_worker = r.id_min_worker,
                                 !.id_max_worker = r.id_max_worker,
                                 !.initialized = TRUE],
         heap |-> r.heap])

\* PickThreads workers started, the counter of pick_worker at 0 or shortly
\* before INT_MAX.
PickWideInitial ==
    /\ Construct(ServerConfigs({0}, {0}), ServiceConfigs({0}), 10)
    /\ this_unit = WideUnit.unit
    /\ heap = WideUnit.heap
    /\ id_generator \in {0, INT_MAX - 2}
    /\ NoDispatch
    /\ listener = NoListener

SpecPickWide == PickWideInitial /\ [][NextPick]_vars

\* The shared listener and the workers that wait on it.
NextListener ==
    \/ Connect
    \/ \E w \in Listening : Wake(w)
    \/ \E w \in Listening : HandleEpollEvents(w)

SpecListener == DispatchInitial /\ [][NextListener]_vars

\* The pool of worker w for server s.
PoolOf(w, s) == m_persistent_entries_by_server[w][s]

RECURSIVE CountPooled(_, _)
\* The number of entries the workers ws hold in their pools for server s.
CountPooled(ws, s) ==
    IF ws = {}
    THEN 0
    ELSE LET w == CHOOSE x \in ws : TRUE
         IN  Len(PoolOf(w, s)) + CountPooled(ws \ {w}, s)

\* The DCBs in the zombie queue of worker w.
Zombies(w) == {m_zombies[w][i] : i \in 1 .. Len(m_zombies[w])}

\* C1: whenever no worker is in the middle of a pool operation, n_persistent
\* of every server equals the number of entries all workers pool for it.
C1_CounterEqualsPooled ==
    \A s \in Servers : srv[s].n_persistent = CountPooled(Workers, s)

\* C2: no DCB is both in the live set and in a pool of its worker, and a DCB
\* that was taken out of the pool is in the live set when it is closed: the
\* DCBs a worker has closed and queued for destruction are in its live set.
C2_LiveSetAndPool ==
    \A w \in Workers :
        /\ m_dcbs[w] \cap Pooled(w) = {}
        /\ Zombies(w) \subseteq m_dcbs[w]

\* C3: the number of entries pooled for a server, by all workers together,
\* never exceeds persistpoolmax of the server.
C3_PoolWithinMax ==
    \A s \in Servers : CountPooled(Workers, s) <= srv[s].persistpoolmax

\* C3, witness: a worker with nothing pooled has just had the release of an
\* eligible DCB turned away, the other workers holding persistpoolmax entries.
C3_ReleaseTurnedAway ==
    /\ lastOp.op = "close"
    /\ lastOp.rv = "full"
    /\ \E s \in Servers : /\ srv[s].persistpoolmax > 0
                          /\ PoolOf(lastOp.w, s) = <<>>
                          /\ CountPooled(Workers, s) = srv[s].persistpoolmax

\* C4: right after evict_dcbs(s, EXPIRED) every entry left in the pool is no
\* older than persistmaxtime and its DCB has not hung up, and the pool is empty
\* if the server is not running.
C4_EvictExpired ==
    (lastOp.op = "evict_dcbs" /\ lastOp.rv[2] = "EXPIRED") =>
        LET s == lastOp.rv[1]
            entries == PoolOf(lastOp.w, s)
        IN  /\ \A i \in 1 .. Len(entries) :
                    /\ now - entries[i].created <= srv[s].persistmaxtime
                    /\ ~dcb[entries[i].dcb].hanged_up
            /\ ~srv[s].running => entries = <<>>

\* C4, witness: evict_dcbs(s, EXPIRED) has retained an entry pooled in an
\* earlier second.
C4_RetainedAnOlderEntry ==
    /\ lastOp.op = "evict_dcbs"
    /\ lastOp.rv[2] = "EXPIRED"
    /\ lastOp.rv[3] > 0
    /\ \E i \in 1 .. Len(PoolOf(lastOp.w, lastOp.rv[1])) :
            PoolOf(lastOp.w, lastOp.rv[1])[i].created < now

\* C5, as claimed: after the tick of a worker its zombie queue is empty.
C5_EmptyAfterTick ==
    lastOp.op = "epoll_tick" => m_zombies[lastOp.w] = <<>>

\* C5, amended: the drain of the tick leaves the zombie queue empty, and the
\* queue is empty after the tick when no tick function closes a DCB; what the
\* tick functions close after the drain stays queued until the next tick.
C5_EmptyAfterDrain ==
    lastOp.op = "epoll_tick" =>
        /\ lastOp.rv.after_drain = 0
        /\ lastOp.rv.hook = 0 => m_zombies[lastOp.w] = <<>>

\* C5, witness: a tick whose drain emptied the queue has ended with the DCB a
\* tick function closed in the queue.
C5_HookLeftAZombie ==
    /\ lastOp.op = "epoll_tick"
    /\ lastOp.rv.after_drain = 0
    /\ lastOp.rv.hook # 0
    /\ lastOp.rv.hook \in Zombies(lastOp.w)

\* C6: every pooled DCB has the pool handler installed, and an event delivered
\* to a pooled DCB goes to the pool handler, not to the protocol, and leaves
\* the DCB out of the pool and closed.
C6_PoolHandler ==
    /\ \A w \in Workers : \A d \in Pooled(w) : dcb[d].handler = "pool"
    /\ (lastOp.op = "event" /\ lastOp.rv.pooled) =>
            /\ lastOp.rv.called = "pool"
            /\ lastOp.rv.d \notin Pooled(lastOp.w)
            /\ ~dcb[lastOp.rv.d].open
            /\ lastOp.rv.d \in Zombies(lastOp.w)

\* C6, witness: an event has been delivered to a pooled DCB.
C6_EventOnPooled == lastOp.op = "event" /\ lastOp.rv.pooled

\* C7: an event delivered to a DCB in the pool of server s decrements
\* n_persistent of s by one, which then equals the number of entries pooled.
C7_EventDecrements ==
    [][\A w \in Workers : \A d \in Pooled(w) :
            (lastOp'.op = "event" /\ lastOp'.w = w /\ lastOp'.rv.d = d) =>
                LET s == dcb[d].server
                IN  /\ srv'[s].n_persistent = srv[s].n_persistent - 1
                    /\ srv'[s].n_persistent = CountPooled(Workers, s)']_vars

\* The entries of the pool of worker w for server s that a scan for expired
\* entries retains: not hung up and no older than persistmaxtime.
Fresh(w, s) ==
    SelectSeq(PoolOf(w, s),
              LAMBDA e : ~dcb[e.dcb].hanged_up /\ now - e.created <= srv[s].persistmaxtime)

\* Whether session c can ask worker w for a connection.
CanAcquire(w, c) ==
    ~aborted /\ c \in m_dcbs[w] /\ dcb[c].role = "CLIENT" /\ dcb[c].open

\* C8, as claimed: a DCB acquired from the pool of s and released at once
\* leaves the pool with the size and the DCBs it had, the DCB at the back,
\* and n_persistent as it was.
C8_RoundTripUnchanged ==
    \A w \in Workers, s \in Servers, c \in ClientIds, nfail \in 0 .. MaxBackends :
        (CanAcquire(w, c) /\ nfail <= Len(PoolOf(w, s))) =>
            \A r \in {get_backend_dcb(St(AllValid, nfail), w, s, c, TRUE)} :
                (r.dcb # 0 /\ r.from_pool) =>
                    \A st \in {DCB_close(r.st, w, r.dcb)} :
                        /\ Len(st.pe[w][s]) = Len(PoolOf(w, s))
                        /\ PoolDcbs(st.pe[w][s]) = PoolDcbs(PoolOf(w, s))
                        /\ st.pe[w][s][Len(st.pe[w][s])].dcb = r.dcb
                        /\ st.srv[s].n_persistent = srv[s].n_persistent

\* C8, amended: the acquire first drops the expired and hung up entries and
\* those whose reuse fails; the DCB it returns is the first of the others, and
\* released at once it is at the back of the pool, behind the entries left,
\* which are unchanged and in their order; n_persistent is lowered by the
\* number of entries dropped.
C8_RoundTripRotates ==
    \A w \in Workers, s \in Servers, c \in ClientIds, nfail \in 0 .. MaxBackends :
        (CanAcquire(w, c) /\ nfail <= Len(PoolOf(w, s))) =>
            \A r \in {get_backend_dcb(St(AllValid, nfail), w, s, c, TRUE)} :
                (r.dcb # 0 /\ r.from_pool) =>
                    \A st \in {DCB_close(r.st, w, r.dcb)} :
                        /\ nfail < Len(Fresh(w, s))
                        /\ r.dcb = Fresh(w, s)[nfail + 1].dcb
                        /\ st.pe[w][s] = Append(SubSeq(Fresh(w, s), nfail + 2,
                                                       Len(Fresh(w, s))),
                                                [dcb |-> r.dcb, created |-> now])
                        /\ st.srv[s].n_persistent =
                                srv[s].n_persistent
                                    - (Len(PoolOf(w, s)) - Len(Fresh(w, s))) - nfail

\* C8, witness: a pool of two entries of which the acquire drops none: the
\* DCB at the front is acquired and, released, is at the back.
C8_TwoEntriesRotate ==
    \E w \in Workers, s \in Servers, c \in ClientIds :
        /\ CanAcquire(w, c)
        /\ Len(PoolOf(w, s)) = 2
        /\ \E r \in {get_backend_dcb(St(AllValid, 0), w, s, c, TRUE)} :
                /\ r.from_pool
                /\ r.dcb = PoolOf(w, s)[1].dcb
                /\ \E st \in {DCB_close(r.st, w, r.dcb)} :
                        /\ Len(st.pe[w][s]) = 2
                        /\ st.pe[w][s][1].dcb = PoolOf(w, s)[2].dcb
                        /\ st.pe[w][s][2].dcb = r.dcb

\* C9, as claimed: with persistmaxtime = 0 no release leaves a DCB in the pool
\* and no entry outlives an eviction of the expired: the pools stay empty.
C9_ZeroAgeNeverPools ==
    \A s \in Servers : srv[s].persistmaxtime = 0 =>
        \A w \in Workers : PoolOf(w, s) = <<>>

\* C9, amended: with persistmaxtime = 0 an entry is expired once the second of
\* its creation has passed: evict_dcbs(s, EXPIRED) on a running server removes
\* the entries created in an earlier second and keeps those of the current
\* second, so a release does leave the DCB in the pool.
C9_ZeroAgeKeepsSecond ==
    [][\A w \in Workers, s \in Servers :
            (/\ srv[s].persistmaxtime = 0
             /\ srv[s].running
             /\ lastOp'.op = "evict_dcbs"
             /\ lastOp'.w = w
             /\ lastOp'.rv[1] = s
             /\ lastOp'.rv[2] = "EXPIRED") =>
                PoolOf(w, s)' =
                    SelectSeq(PoolOf(w, s),
                              LAMBDA e : ~dcb[e.dcb].hanged_up /\ e.created = now)]_vars

\* C9, witness: with persistmaxtime = 0 a released DCB is in the pool and
\* evict_dcbs(s, EXPIRED) has retained it.
C9_RetainedAtZeroAge ==
    /\ lastOp.op = "evict_dcbs"
    /\ lastOp.rv[2] = "EXPIRED"
    /\ lastOp.rv[3] > 0
    /\ srv[lastOp.rv[1]].persistmaxtime = 0
    /\ PoolOf(lastOp.w, lastOp.rv[1]) # <<>>

\* C10: a scan triggers no idle hangup when conn_idle_timeout is 0 and no
\* write hangup when net_write_timeout is 0, whatever the other timeout is.
C10_ZeroDisables ==
    \A d \in DcbIds :
        /\ service.conn_idle_timeout = 0 => <<d, "idle">> \notin hangups
        /\ service.net_write_timeout = 0 => <<d, "write">> \notin hangups

\* C10, witness: with the idle timeout disabled, a scan finds a client idle
\* for longer than the write timeout and triggers the write hangup only.
C10_OnlyWriteHangup ==
    /\ service.conn_idle_timeout = 0
    /\ service.net_write_timeout > 0
    /\ \E d \in DcbIds : /\ <<d, "write">> \in hangups
                         /\ mxs_clock - dcb[d].last_read > service.net_write_timeout * 10

\* The backend DCBs of worker w to server s that a release would pool, were
\* there room: polling, bound to a session and not hung up.
Eligible(w, s) ==
    {d \in m_dcbs[w] \cap BackendIds :
        /\ dcb[d].open
        /\ dcb[d].server = s
        /\ dcb[d].state = "POLLING"
        /\ dcb[d].session # 0
        /\ ~dcb[d].hanged_up}

RECURSIVE release_all(_, _, _)
\* DCB::close on each DCB of ds in turn.
release_all(st, w, ds) ==
    IF ds = {}
    THEN st
    ELSE LET d == CHOOSE x \in ds : \A y \in ds : x <= y
         IN  release_all(DCB_close(st, w, d), w, ds \ {d})

\* C11: with persistpoolmax = m and nothing pooled, the release of k > m
\* eligible DCBs of one worker within a second leaves m entries in the pool,
\* hands the other k - m to destruction and leaves n_persistent = m.
C11_OverflowKeepsMax ==
    \A w \in Workers, s \in Servers :
        (/\ ~aborted
         /\ srv[s].running
         /\ srv[s].n_persistent = 0
         /\ \A v \in Workers : PoolOf(v, s) = <<>>
         /\ Cardinality(Eligible(w, s)) > srv[s].persistpoolmax) =>
            \A st \in {release_all(St(AllValid, 0), w, Eligible(w, s))} :
                /\ Len(st.pe[w][s]) = srv[s].persistpoolmax
                /\ PoolDcbs(st.pe[w][s]) \subseteq Eligible(w, s)
                /\ st.srv[s].n_persistent = srv[s].persistpoolmax
                /\ Len(st.m_zombies[w]) =
                        Len(m_zombies[w]) + Cardinality(Eligible(w, s))
                            - srv[s].persistpoolmax
                /\ \A d \in Eligible(w, s) \ PoolDcbs(st.pe[w][s]) :
                        /\ ~st.dcb[d].open
                        /\ \E i \in 1 .. Len(st.m_zombies[w]) : st.m_zombies[w][i] = d

\* C11, witness: two eligible DCBs and persistpoolmax = 1: released, one is
\* pooled and the other is queued for destruction.
C11_TwoReleasedOneKept ==
    \E w \in Workers, s \in Servers :
        /\ ~aborted
        /\ srv[s].running
        /\ srv[s].persistpoolmax = 1
        /\ srv[s].n_persistent = 0
        /\ PoolOf(w, s) = <<>>
        /\ Cardinality(Eligible(w, s)) = 2
        /\ \E st \in {release_all(St(AllValid, 0), w, Eligible(w, s))} :
                /\ Len(st.pe[w][s]) = 1
                /\ Len(st.m_zombies[w]) = Len(m_zombies[w]) + 1

\* The entries of the pool of worker w for server s older than persistmaxtime.
Expired(w, s) ==
    {PoolOf(w, s)[i].dcb : i \in {j \in 1 .. Len(PoolOf(w, s)) :
                                    now - PoolOf(w, s)[j].created > srv[s].persistmaxtime}}

\* C12: get_backend_dcb returns no DCB of an entry older than persistmaxtime:
\* the call evicts and closes those entries, and with no usable entry left it
\* returns what the fresh connect returns.
C12_NoExpiredReuse ==
    \A w \in Workers, s \in Servers, c \in ClientIds, nfail \in 0 .. MaxBackends,
       ok \in BOOLEAN :
        (/\ CanAcquire(w, c)
         /\ nfail <= Len(PoolOf(w, s))
         /\ persistent_conns_enabled(srv[s])
         /\ srv[s].running) =>
            \A r \in {get_backend_dcb(St(AllValid, nfail), w, s, c, ok)} :
                /\ r.dcb \notin Expired(w, s)
                /\ \A d \in Expired(w, s) :
                        /\ d \notin PoolDcbs(r.st.pe[w][s])
                        /\ ~r.st.dcb[d].open
                        /\ \E i \in 1 .. Len(r.st.m_zombies[w]) : r.st.m_zombies[w][i] = d
                /\ r.from_pool => r.dcb \in PoolDcbs(Fresh(w, s))
                /\ nfail >= Len(Fresh(w, s)) =>
                        /\ ~r.from_pool
                        /\ r.dcb = connect(St(AllValid, 0), w, s, c, ok).dcb

\* C12, witness: the pool holds an expired entry in front of a usable one;
\* get_backend_dcb evicts the first and returns the DCB of the second.
C12_SkipsExpiredEntry ==
    \E w \in Workers, s \in Servers, c \in ClientIds :
        /\ CanAcquire(w, c)
        /\ srv[s].running
        /\ Len(PoolOf(w, s)) = 2
        /\ PoolOf(w, s)[1].dcb \in Expired(w, s)
        /\ PoolOf(w, s)[2].dcb \notin Expired(w, s)
        /\ \E r \in {get_backend_dcb(St(AllValid, 0), w, s, c, TRUE)} :
                /\ r.from_pool
                /\ r.dcb = PoolOf(w, s)[2].dcb

\* C16: the pool of a worker is first in, first out: a release appends its
\* entry behind the entries that survive the eviction, and an acquisition
\* tries the surviving entries from the front, so that the DCB it returns is
\* the earliest pooled one that passes the reuse.
C16_PoolIsFifo ==
    \A w \in Workers, s \in Servers :
        (~aborted /\ srv[s].running /\ persistent_conns_enabled(srv[s])) =>
            /\ \A d \in Eligible(w, s) :
                    \A st \in {DCB_close(St(AllValid, 0), w, d)} :
                        d \in PoolDcbs(st.pe[w][s]) =>
                            st.pe[w][s] = Fresh(w, s) \o <<[dcb |-> d, created |-> now]>>
            /\ \A c \in ClientIds, nfail \in 0 .. MaxBackends :
                    (CanAcquire(w, c) /\ nfail < Len(Fresh(w, s))) =>
                        \A r \in {get_backend_dcb(St(AllValid, nfail), w, s, c, TRUE)} :
                            /\ r.from_pool
                            /\ r.dcb = Fresh(w, s)[nfail + 1].dcb
                            /\ r.st.pe[w][s] = SubSeq(Fresh(w, s), nfail + 2, Len(Fresh(w, s)))

\* C16, witness: one DCB is pooled and a second one is released behind it;
\* the acquisition that follows returns the first.
C16_SecondBehindFirst ==
    \E w \in Workers, s \in Servers, c \in ClientIds :
        /\ CanAcquire(w, c)
        /\ srv[s].running
        /\ Len(Fresh(w, s)) = 1
        /\ Len(PoolOf(w, s)) = 1
        /\ \E d \in Eligible(w, s) :
            \E st \in {DCB_close(St(AllValid, 0), w, d)} :
                /\ Len(st.pe[w][s]) = 2
                /\ st.pe[w][s][2].dcb = d
                /\ get_backend_dcb(st, w, s, c, TRUE).dcb = PoolOf(w, s)[1].dcb

\* C13: in a loop that ticks at every heartbeat, a polling client DCB of a
\* service with conn_idle_timeout = T > 0 that is idle for more than 10 * T
\* heartbeats is scanned within 10 heartbeats of the first heartbeat at which
\* it was: either the scan is still to come and no later than that, or it has
\* run, set the close reason to TIMEOUT and triggered the hangup event.
C13_IdleTimeoutWithinPeriod ==
    \A w \in Workers : \A d \in m_dcbs[w] \cap ClientIds :
        (/\ ~aborted
         /\ dcb[d].open
         /\ dcb[d].state = "POLLING"
         /\ service.conn_idle_timeout > 0
         /\ mxs_clock - dcb[d].last_read > 10 * service.conn_idle_timeout) =>
            LET exceeded == dcb[d].last_read + 10 * service.conn_idle_timeout + 1
                scanned == m_next_timeout_check[w] - 10
            IN  IF scanned >= exceeded
                THEN /\ dcb[d].close_reason = "TIMEOUT"
                     /\ (lastOp.op = "epoll_tick" /\ scanned = mxs_clock) =>
                            <<d, "idle">> \in hangups
                ELSE /\ m_next_timeout_check[w] > mxs_clock
                     /\ m_next_timeout_check[w] <= exceeded + 9

\* C13, witness: the scan of this tick found a client idle for more than
\* 10 * T heartbeats and triggered its hangup.
C13_IdleClientTimedOut ==
    \E w \in Workers : \E d \in m_dcbs[w] \cap ClientIds :
        /\ ~aborted
        /\ dcb[d].state = "POLLING"
        /\ service.conn_idle_timeout > 0
        /\ service.net_write_timeout = 0
        /\ lastOp.op = "epoll_tick"
        /\ m_next_timeout_check[w] = mxs_clock + 10
        /\ mxs_clock - dcb[d].last_read > 10 * service.conn_idle_timeout + 5
        /\ dcb[d].close_reason = "TIMEOUT"
        /\ <<d, "idle">> \in hangups

\* The messages of call tag in the queue of worker w.
Queued(w, tag) == Len(SelectSeq(mailbox[w], LAMBDA m : m.tag = tag))

\* The executions of call tag worker w has started.
Started_on(w, tag) == Len(SelectSeq(runs[tag].order, LAMBDA v : v = w))

\* C14: once execute_concurrently has returned, the task has run to its end
\* exactly once on every worker that accepted it and on no other, the count
\* returned is the number of those workers, N when all N workers accepted,
\* and no execution of the task is queued, running or started later.
C14_ConcurrentlyIsBarrier ==
    \A tag \in Tags :
        (~aborted /\ runs[tag].op \in ConcurrentlyOps /\ runs[tag].returned # -1) =>
            /\ runs[tag].returned = Cardinality(runs[tag].accepted)
            /\ runs[tag].ended = runs[tag].accepted
            /\ Len(runs[tag].order) = Cardinality(runs[tag].accepted)
            /\ \A w \in Slots :
                    /\ Started_on(w, tag) = (IF w \in runs[tag].accepted THEN 1 ELSE 0)
                    /\ Queued(w, tag) = 0
                    /\ executing[w].tag # tag
            /\ ~runs[tag].late
            /\ runs[tag].accepted = heap => runs[tag].returned = this_unit.nWorkers

\* C14, witness: execute_concurrently has returned the number of the workers
\* and the task has run on each.
C14_RanOnAllWorkers ==
    \E tag \in Tags :
        /\ runs[tag].op \in ConcurrentlyOps
        /\ runs[tag].returned = NWorkers
        /\ runs[tag].ended = heap
        /\ lastOp.op = "return"

\* C18: a broadcast that has returned has tried every live worker once and no
\* other, has left one message with each worker that accepted and none with
\* a worker that did not, and has returned the number of workers that
\* accepted.
C18_BroadcastCountsAccepted ==
    \A tag \in Tags :
        (~aborted /\ runs[tag].op \in BroadcastOps /\ runs[tag].returned # -1) =>
            /\ \A w \in Slots :
                    /\ runs[tag].tried[w] = (IF w \in heap THEN 1 ELSE 0)
                    /\ Queued(w, tag) + Started_on(w, tag) =
                            (IF w \in runs[tag].accepted THEN 1 ELSE 0)
            /\ runs[tag].accepted \subseteq heap
            /\ runs[tag].returned = Cardinality(runs[tag].accepted)

\* C18, witness: the first worker turned the broadcast down, the second
\* accepted it, and the broadcast returned 1.
C18_RejectedThenAccepted ==
    \E tag \in Tags :
        /\ runs[tag].op \in BroadcastOps
        /\ runs[tag].returned = 1
        /\ runs[tag].accepted = {1}
        /\ runs[tag].tried[0] = 1

\* C19: the task of execute_serially is queued or running on one worker at
\* most; the workers run it in increasing order of index, each after the one
\* before has run it to its end, and the count returned is the number of
\* workers that ran it.
C19_SeriallyOneAtATime ==
    \A tag \in Tags :
        (~aborted /\ runs[tag].op \in SeriallyOps) =>
            /\ Cardinality({w \in Slots : Queued(w, tag) > 0 \/ executing[w].tag = tag}) <= 1
            /\ Cardinality(runs[tag].accepted \ runs[tag].ended) <= 1
            /\ \A w \in runs[tag].accepted \ runs[tag].ended :
                    \A v \in runs[tag].accepted : v <= w
            /\ \A i, j \in 1 .. Len(runs[tag].order) :
                    i < j => runs[tag].order[i] < runs[tag].order[j]
            /\ \A w \in Slots : Queued(w, tag) + Started_on(w, tag) =
                                    (IF w \in runs[tag].accepted THEN 1 ELSE 0)
            /\ runs[tag].returned # -1 =>
                    /\ runs[tag].returned = Cardinality(runs[tag].ended)
                    /\ runs[tag].ended = runs[tag].accepted
                    /\ ~runs[tag].late

\* C19, witness: execute_serially has returned 2, the task having run on
\* worker 0 and then on worker 1.
C19_RanOnEachInTurn ==
    \E tag \in Tags :
        /\ runs[tag].op \in SeriallyOps
        /\ runs[tag].returned = 2
        /\ runs[tag].order = <<0, 1>>

\* C17: when the unit is initialized, also by an init that follows finish()
\* or an init that failed, the workers have the nWorkers ids id_min_worker ..
\* id_max_worker, the main worker is the one created first, and get(id)
\* returns the worker of that id.
C17_DenseIdsAndGet ==
    (~aborted /\ this_unit.initialized) =>
        LET created == {this_unit.ppWorkers[i] : i \in 0 .. (this_unit.nWorkers - 1)}
            ids == this_unit.id_min_worker .. this_unit.id_max_worker
        IN  /\ created = ids
            /\ created = heap
            /\ Cardinality(ids) = this_unit.nWorkers
            /\ this_unit.id_main_worker = this_unit.ppWorkers[0]
            /\ \A id \in ids : get(this_unit, id).rv = id

\* C20: the k-th call of pick_worker returns the worker of id
\* id_min_worker + (k mod nWorkers).
C20_RoundRobin ==
    (~aborted /\ lastOp.op = "pick_worker") =>
        lastOp.rv = this_unit.id_min_worker + CallModulo(lastOp.w, this_unit.nWorkers)

RECURSIVE TotalAccepted(_)
\* The connections the workers of ws have accepted.
TotalAccepted(ws) ==
    IF ws = {}
    THEN 0
    ELSE LET w == CHOOSE x \in ws : TRUE
         IN  listener.accepted[w] + TotalAccepted(ws \ {w})

\* Every connection made is waiting to be accepted or was accepted once, and
\* a wake-up handles one event of the listener at most.
AcceptedOnceOnePerWake ==
    /\ TotalAccepted(Listening) + listener.pending = listener.arrived
    /\ lastOp.op = "handle_epoll_events" =>
            /\ lastOp.rv.nfds <= 1
            /\ listener.accepted[lastOp.w] = lastOp.rv.before + lastOp.rv.nfds

\* C15: every connection is accepted by one worker, a worker handles one
\* event of the listener per wake-up at most, and how many connections a
\* worker gets is settled by the order in which the workers wake up, between
\* none and all of them.
C15_AcceptedOnce ==
    ~aborted => AcceptedOnceOnePerWake

\* C15, witness: all the connections were made and accepted, and one worker
\* accepted every one of them.
C15_OneWorkerTookAll ==
    /\ listener.arrived = NConnections
    /\ listener.pending = 0
    /\ \E w \in Listening : listener.accepted[w] = NConnections

\* C15 as stated: besides, once the 8 connections are accepted every one of
\* the 4 workers has accepted between 1 and 3 of them.
C15_BoundedDistribution ==
    ~aborted =>
        /\ AcceptedOnceOnePerWake
        /\ (listener.arrived = NConnections /\ listener.pending = 0) =>
                \A w \in Listening : listener.accepted[w] \in 1 .. 3


\* C30: a drain of the zombie queue destroys every DCB that is in the queue
\* when it starts, the one enqueued last first, destroys a DCB that a
\* destruction enqueues right after the DCB whose destruction enqueued it, and
\* returns with the queue empty.
C30_DrainIsLifo ==
    \A w \in Workers :
        \A r \in {delete_zombies(St(AllValid, 0), w)} :
            LET q == m_zombies[w]
                done == r.destroyed
            IN  /\ r.m_zombies[w] = <<>>
                /\ \A i \in 1..Len(q) : PositionIn(done, q[i]) > 0
                /\ \A i, j \in 1..Len(q) :
                        i < j => PositionIn(done, q[j]) < PositionIn(done, q[i])
                /\ \A k \in 1..Len(done) :
                        PositionIn(q, done[k]) = 0 =>
                            /\ k > 1
                            /\ \/ dcb[done[k - 1]].role = "CLIENT"
                               \/ PositionIn(q, done[k - 1]) = 0

\* C30 witness: two DCBs wait in the zombie queue, and the destruction of one
\* of them enqueues a third, which the same drain destroys.
C30_DrainTookALateZombie ==
    \E w \in Workers :
        /\ Len(m_zombies[w]) >= 2
        /\ Len(delete_zombies(St(AllValid, 0), w).destroyed) > Len(m_zombies[w])


\* The server does not allow pooling, or is not running.
PoolBypassed(s) == ~persistent_conns_enabled(srv[s]) \/ ~srv[s].running

\* C28: when the server does not allow pooling or is not running,
\* get_backend_dcb takes no entry from the pool and evicts none: the DCB it
\* returns is a new one from connect (or none), and the worker's pool for the
\* server, n_persistent and n_from_pool are as they were.
C28_BypassLeavesPool ==
    \A w \in Workers, s \in Servers, c \in ClientIds, ok \in BOOLEAN :
        (CanAcquire(w, c) /\ PoolBypassed(s)) =>
            \A r \in {get_backend_dcb(St(AllValid, 0), w, s, c, ok)} :
                /\ ~r.from_pool
                /\ r.dcb = (IF ok THEN FreeSlot(St(AllValid, 0), BackendIds) ELSE 0)
                /\ r.dcb # 0 => dcb[r.dcb].role = "NONE" /\ r.dcb \in r.st.m_dcbs[w]
                /\ r.st.pe = m_persistent_entries_by_server
                /\ r.st.srv = srv
                /\ r.st.n_from_pool[s] = 0
                /\ r.st.m_zombies = m_zombies

\* C28 witness: the server is not running while the worker still holds a
\* pooled DCB for it, and get_backend_dcb returns a new connection.
C28_ConnectedPastThePool ==
    \E w \in Workers, s \in Servers, c \in ClientIds :
        /\ CanAcquire(w, c)
        /\ ~srv[s].running
        /\ m_persistent_entries_by_server[w][s] # <<>>
        /\ \E r \in {get_backend_dcb(St(AllValid, 0), w, s, c, TRUE)} :
               r.dcb # 0 /\ ~r.from_pool


\* C27: of the entries a call of get_backend_dcb finds usable in the pool, each
\* one whose reuse_connection fails is closed (it waits in the zombie queue,
\* is in no pool and is not the DCB returned) and the next entry is tried; the
\* first entry whose reuse succeeds is returned, and n_from_pool and n_current
\* are incremented for it alone; when every entry fails, or there is none,
\* the call returns what connect returns and increments neither counter.
C27_FailedReuseIsClosed ==
    \A w \in Workers, s \in Servers, c \in ClientIds, nfail \in 0 .. MaxBackends,
       ok \in BOOLEAN :
        (CanAcquire(w, c) /\ ~PoolBypassed(s) /\ nfail <= Len(Fresh(w, s))) =>
            \A r \in {get_backend_dcb(St(AllValid, nfail), w, s, c, ok)} :
                LET usable == Fresh(w, s)
                IN  /\ \A i \in 1 .. nfail :
                            /\ ~r.st.dcb[usable[i].dcb].open
                            /\ PositionIn(r.st.m_zombies[w], usable[i].dcb) > 0
                            /\ usable[i].dcb \notin PoolDcbs(r.st.pe[w][s])
                            /\ r.dcb # usable[i].dcb
                    /\ ~r.st.m_evicting[w]
                    /\ IF nfail < Len(usable)
                       THEN /\ r.from_pool
                            /\ r.dcb = usable[nfail + 1].dcb
                            /\ r.st.n_from_pool[s] = 1
                            /\ r.st.n_current[s] = 1
                            /\ r.st.pe[w][s] = SubSeq(usable, nfail + 2, Len(usable))
                       ELSE /\ ~r.from_pool
                            /\ r.dcb = (IF ok THEN FreeSlot(St(AllValid, 0), BackendIds)
                                        ELSE 0)
                            /\ r.st.n_from_pool[s] = 0
                            /\ r.st.n_current[s] = 0
                            /\ r.st.pe[w][s] = <<>>

\* C27 witness: the pool holds two usable entries, reuse_connection fails for
\* the first, and get_backend_dcb returns the DCB of the second.
C27_SecondEntryReused ==
    \E w \in Workers, s \in Servers, c \in ClientIds :
        /\ CanAcquire(w, c)
        /\ ~PoolBypassed(s)
        /\ Len(Fresh(w, s)) = 2
        /\ \E r \in {get_backend_dcb(St(AllValid, 1), w, s, c, TRUE)} :
               /\ r.from_pool
               /\ r.dcb = Fresh(w, s)[2].dcb
               /\ ~r.st.dcb[Fresh(w, s)[1].dcb].open


\* The state a handler of worker w works on while the worker cleans a pool.
Evicting(st, w) == [st EXCEPT !.m_evicting[w] = TRUE]

\* C26: a can_be_destroyed call made on a worker whose m_evicting flag is set
\* returns true and changes nothing, whatever the DCB; and every DCB that
\* evict_dcbs, evict_dcb or a failed reuse closes is asked about under the
\* flag and is in no pool when the handler returns.
C26_NoPoolingWhileEvicting ==
    \A w \in Workers :
        ~aborted =>
            /\ \A d \in m_dcbs[w] \cap BackendIds, o \in OraclesFor(w) :
                    \A r \in {can_be_destroyed(Evicting(St(o, 0), w), w, d)} :
                        /\ r.rv
                        /\ r.st = [Evicting(St(o, 0), w) EXCEPT !.refused = {d}]
            /\ \A s \in Servers :
                    /\ \A r \in {evict_dcbs(St(AllValid, 0), w, s, "ALL").st} :
                            /\ r.refused = PoolDcbs(PoolOf(w, s))
                            /\ r.pe[w][s] = <<>>
                            /\ ~r.m_evicting[w]
                    /\ \A d \in PoolDcbs(PoolOf(w, s)) :
                            \A r \in {evict_dcb(St(AllValid, 0), w, d)} :
                                /\ r.refused = {d}
                                /\ d \notin PoolDcbs(r.pe[w][s])
                                /\ ~r.dcb[d].open
                    /\ \A c \in ClientIds :
                            (CanAcquire(w, c) /\ ~PoolBypassed(s) /\ Fresh(w, s) # <<>>) =>
                                \A r \in {get_backend_dcb(St(AllValid, 1), w, s, c,
                                                          TRUE).st} :
                                    /\ Fresh(w, s)[1].dcb \in r.refused
                                    /\ Fresh(w, s)[1].dcb \notin PoolDcbs(r.pe[w][s])

\* C26 witness: the worker holds a pooled DCB and a DCB that a release pools
\* while the flag is clear; an event evicts the pooled DCB, which is asked
\* about under the flag.
C26_RefusedUnderTheFlag ==
    \E w \in Workers, s \in Servers, d \in BackendIds :
        /\ ~aborted
        /\ d \in m_dcbs[w]
        /\ ~can_be_destroyed(St(AllValid, 0), w, d).rv
        /\ can_be_destroyed(Evicting(St(AllValid, 0), w), w, d).rv
        /\ \E p \in PoolDcbs(PoolOf(w, s)) :
               evict_dcb(St(AllValid, 0), w, p).refused = {p}


\* C29, as claimed: evict_dcbs(s, EXPIRED) leaves at most persistpoolmax
\* entries in the pool of the worker for s and returns the number of entries
\* it leaves, whatever persistpoolmax is when it is called.
C29_EvictLeavesAtMostMax ==
    (~aborted /\ lastOp.op = "evict_dcbs" /\ lastOp.rv[2] = "EXPIRED") =>
        /\ Len(PoolOf(lastOp.w, lastOp.rv[1])) <= srv[lastOp.rv[1]].persistpoolmax
        /\ lastOp.rv[3] = Len(PoolOf(lastOp.w, lastOp.rv[1]))


\* C25: can_be_destroyed pools the DCB and returns false exactly when the
\* evicting flag is clear, the DCB is polling, its protocol is established,
\* its session is valid for pooling, persistpoolmax is positive, the server is
\* running, the DCB has not hung up, the eviction of the expired entries
\* retains fewer than persistpoolmax entries and the limited increment of
\* n_persistent succeeds; then the DCB is at the back of the pool, out of the
\* live set, with the pool handler, n_persistent one higher and n_current one
\* lower.  Otherwise it returns true and adds nothing to what the eviction, if
\* it ran, has left.  With persistpoolmax = 0 nothing changes at all.
C25_PoolsIffEligible ==
    \A w \in Workers, d \in BackendIds :
        (~aborted /\ d \in m_dcbs[w] /\ dcb[d].open) =>
            \A o \in OraclesFor(w), flag \in BOOLEAN :
                \A st \in {IF flag THEN Evicting(St(o, 0), w) ELSE St(o, 0)} :
                \A r \in {can_be_destroyed(st, w, d)} :
                \A e \in {evict_dcbs(St(o, 0), w, dcb[d].server, "EXPIRED")} :
                    LET s == dcb[d].server
                        before == /\ ~flag
                                  /\ dcb[d].state = "POLLING"
                                  /\ o.established[d]
                                  /\ dcb[d].session # 0
                                  /\ o.valid[dcb[d].session]
                                  /\ srv[s].persistpoolmax > 0
                                  /\ srv[s].running
                                  /\ ~dcb[d].hanged_up
                        all == /\ before
                               /\ e.count < srv[s].persistpoolmax
                               /\ e.st.srv[s].n_persistent + 1 <= srv[s].persistpoolmax
                    IN  /\ r.rv = ~all
                        /\ all =>
                            /\ r.st.pe[w][s] = Append(e.st.pe[w][s],
                                                      [dcb |-> d, created |-> now])
                            /\ r.st.m_dcbs[w] = e.st.m_dcbs[w] \ {d}
                            /\ r.st.dcb[d].handler = "pool"
                            /\ r.st.srv[s].n_persistent = e.st.srv[s].n_persistent + 1
                            /\ r.st.n_current[s] = -1
                        /\ (~all /\ before) => r.st = e.st
                        /\ ~before => [r.st EXCEPT !.refused = {}] = st
                        /\ srv[s].persistpoolmax = 0 =>
                            r.rv /\ [r.st EXCEPT !.refused = {}] = st

\* C25 witness: a DCB that can_be_destroyed pools when the protocol session is
\* established and turns away, changing nothing, when it is not.
C25_EstablishedDecides ==
    \E w \in Workers, d \in BackendIds :
        /\ ~aborted
        /\ d \in m_dcbs[w]
        /\ dcb[d].open
        /\ ~can_be_destroyed(St(Oracle(TRUE, TRUE), 0), w, d).rv
        /\ can_be_destroyed(St(Oracle(TRUE, FALSE), 0), w, d).rv
        /\ can_be_destroyed(St(Oracle(TRUE, FALSE), 0), w, d).st = St(Oracle(TRUE, FALSE), 0)


\* C24, as claimed: add for a DCB that is in the live set, remove for a DCB
\* that is not, and destroy for a DCB that another worker owns are rejected:
\* they leave the live set and the zombie queue of the worker as they were.
C24_MisuseRejected ==
    (~aborted /\ lastOp.op \in {"add", "remove", "destroy"}) =>
        /\ m_dcbs[lastOp.w] = lastOp.rv.dcbs
        /\ m_zombies[lastOp.w] = lastOp.rv.zombies


\* C21: the current worker id of a thread is the id of worker w exactly while
\* the thread is in the loop of w, from a pre_run that succeeded to the end of
\* post_run, and WORKER_ABSENT_ID before that, after that, after a pre_run
\* that failed, and on a thread that runs no worker; get_current returns w in
\* the first case and null in the others.
C21_CurrentIdInLoopOnly ==
    /\ \A t \in Threads :
            /\ current_worker_id[t] = (IF t \in Workers /\ wstate[t] = "running"
                                       THEN t
                                       ELSE WORKER_ABSENT_ID)
            /\ get_current(this_unit, current_worker_id[t]) =
                    [rv |-> RunsAs(t), ub |-> FALSE]
    /\ lastOp.op = "get_current" => lastOp.rv = RunsAs(lastOp.w)
    /\ lastOp.op = "pre_run" =>
            wstate[lastOp.w] = (IF lastOp.rv.rv THEN "running" ELSE "failed")
    /\ lastOp.op = "post_run" => wstate[lastOp.w] = "finished"

\* C21 witness: the pre_run of one worker has failed, and get_current, called
\* on the thread of another worker that is in its loop, returns that worker.
C21_OneFailedOneCurrent ==
    /\ lastOp.op = "get_current"
    /\ lastOp.w \in Workers
    /\ lastOp.rv = lastOp.w
    /\ \E v \in Workers : wstate[v] = "failed" /\ current_worker_id[v] = WORKER_ABSENT_ID


\* C22: register, deregister and lookup of a session, called on a thread that
\* runs as worker A, act on the session registry of A and on no other: a
\* session registered on A is found by a lookup on A, and a lookup on another
\* worker B finds it only if it is registered on B too.
C22_RegistryOfCurrentWorker ==
    /\ (lastOp.op \in {"register_session", "deregister_session", "find_session"}
         /\ lastOp.rv.as # NULL) =>
            LET A == lastOp.rv.as
                session == lastOp.rv.session
                before == lastOp.rv.before
            IN  /\ lastOp.op = "register_session" =>
                        /\ m_sessions = [before EXCEPT ![A] = @ \cup {session}]
                        /\ lastOp.rv.rv = (session \notin before[A])
                /\ lastOp.op = "deregister_session" =>
                        /\ m_sessions = [before EXCEPT ![A] = @ \ {session}]
                        /\ lastOp.rv.rv = (session \in before[A])
                /\ lastOp.op = "find_session" =>
                        /\ m_sessions = before
                        /\ lastOp.rv.rv = (session \in before[A])
    /\ \A A \in Workers, session \in SessionIds :
            (~aborted /\ RunsAs(A) = A) =>
                \A r \in {mxs_rworker_register_session(this_unit, m_sessions,
                                                       current_worker_id[A], session)} :
                    /\ mxs_rworker_find_session(this_unit, r.sessions,
                                                current_worker_id[A], session).rv
                    /\ \A B \in Workers \ {A} :
                            (RunsAs(B) = B /\ session \notin m_sessions[B]) =>
                                ~mxs_rworker_find_session(this_unit, r.sessions,
                                                          current_worker_id[B],
                                                          session).rv

\* C22 witness: a lookup on the thread of worker B does not find a session
\* that is registered on worker A.
C22_NotFoundOnOtherWorker ==
    /\ lastOp.op = "find_session"
    /\ lastOp.rv.as # NULL
    /\ ~lastOp.rv.rv
    /\ \E A \in Workers \ {lastOp.rv.as} :
           RunsAs(A) = A /\ lastOp.rv.session \in m_sessions[A]


\* The calls post_run makes on the modules and the query classifier, each
\* made while the current worker id of the thread is still that of worker w.
FinishCalls(w) ==
    [m \in 1 .. NModules |-> [call |-> "thread_finish", module |-> m, id |-> w]]
        \o <<[call |-> "qc_thread_end", module |-> 0, id |-> w]>>

\* C23: when the thread of worker w has left its loop, every entry that the
\* pools of w held is evicted and its DCB closed, so the pools are empty and
\* n_persistent of each server is lower by the number of entries evicted;
\* thread_finish has been called on every module; and the current worker id
\* of the thread was cleared after all that.
C23_ExitEmptiesPools ==
    lastOp.op = "post_run" =>
        LET w == lastOp.w
            pools == lastOp.rv.pools
        IN  /\ \A s \in Servers :
                    /\ PoolOf(w, s) = <<>>
                    /\ srv[s].n_persistent = lastOp.rv.n_persistent[s] - Len(pools[s])
                    /\ \A d \in PoolDcbs(pools[s]) :
                            ~dcb[d].open /\ PositionIn(m_zombies[w], d) > 0
            /\ lastOp.rv.log = FinishCalls(w)
            /\ current_worker_id[w] = WORKER_ABSENT_ID

\* C23 witness: a thread has left its loop with a DCB in a pool of its worker.
C23_ExitedWithPooledDcb ==
    /\ lastOp.op = "post_run"
    /\ \E s \in Servers : lastOp.rv.pools[s] # <<>>

\* The modules on which `name` was called, in the order of the calls.
ModulesCalled(log, name) ==
    LET calls == SelectSeq(log, LAMBDA c : c.call = name)
    IN  [k \in 1 .. Len(calls) |-> calls[k].module]

\* The modules whose thread_init returned 0: all those called where
\* qc_thread_init was reached, all but the last one otherwise.
InitSucceeded(log) ==
    LET inits == ModulesCalled(log, "thread_init")
    IN  IF ModulesCalled(log, "qc_thread_init") # <<>> \/ inits = <<>>
        THEN inits
        ELSE SubSeq(inits, 1, Len(inits) - 1)

Reversed(q) == [k \in 1 .. Len(q) |-> q[Len(q) + 1 - k]]

\* pre_run has failed in thread_init of a module.
ModuleInitFailed ==
    /\ lastOp.op = "pre_run"
    /\ ~lastOp.rv.rv
    /\ ModulesCalled(lastOp.rv.log, "qc_thread_init") = <<>>

\* C31 (as stated): when thread_init of a module fails, thread_finish is
\* called on exactly the modules whose thread_init had succeeded, in the
\* reverse of the order of their initialization, and the thread exits without
\* running the loop.
C31_FinishedInReverse ==
    ModuleInitFailed =>
        /\ ModulesCalled(lastOp.rv.log, "thread_finish")
                = Reversed(InitSucceeded(lastOp.rv.log))
        /\ wstate[lastOp.w] = "failed"

\* C31 (amended): when thread_init of a module fails, thread_finish is called
\* on exactly the modules whose thread_init had succeeded, in the order of
\* their initialization (the module that failed and the later ones are not
\* finished, and no later module is initialized), and the thread exits
\* without running the loop.
C31_FinishedInInitOrder ==
    ModuleInitFailed =>
        LET log == lastOp.rv.log
            inits == ModulesCalled(log, "thread_init")
        IN  /\ ModulesCalled(log, "thread_finish") = InitSucceeded(log)
            /\ inits = [k \in 1 .. Len(inits) |-> k]
            /\ \A k \in 1 .. Len(log) :
                    log[k].call = "thread_finish" => k > Len(inits)
            /\ wstate[lastOp.w] = "failed"
            /\ current_worker_id[lastOp.w] = WORKER_ABSENT_ID

\* C31 witness: thread_init of the third module failed after two had
\* succeeded.
C31_ThirdModuleFailed ==
    /\ ModuleInitFailed
    /\ Len(InitSucceeded(lastOp.rv.log)) = 2

\* C36: whenever pre_run fails, thread_finish has been called on every module
\* whose thread_init succeeded, also when it is qc_thread_init that failed.
C36_InitializedModulesFinished ==
    (lastOp.op = "pre_run" /\ ~lastOp.rv.rv) =>
        \A k \in 1 .. Len(InitSucceeded(lastOp.rv.log)) :
            \E j \in 1 .. Len(lastOp.rv.log) :
                /\ lastOp.rv.log[j].call = "thread_finish"
                /\ lastOp.rv.log[j].module = InitSucceeded(lastOp.rv.log)[k]

\* C37: every DCB that destroy() has appended to the zombie queue is really
\* destroyed in the end, those that the eviction of post_run enqueues
\* included: a thread that leaves its loop with an empty zombie queue leaves
\* no DCB in the queue of its worker.
C37_NoZombieAfterStop ==
    (lastOp.op = "post_run" /\ lastOp.rv.zombies = <<>>) =>
        /\ wstate[lastOp.w] = "finished"
        /\ m_zombies[lastOp.w] = <<>>

\* C39: pick_worker returns a worker whose id lies in id_min_worker ..
\* id_max_worker whatever the value of its counter, also once the counter has
\* wrapped past INT_MAX.
C39_PickedIdInRange ==
    /\ lastOp.op = "pick_worker" =>
            /\ lastOp.rv \in this_unit.id_min_worker .. this_unit.id_max_worker
            /\ lastOp.rv \in heap
    /\ ~aborted

\* C34: every DCB that a pool operation closes (evict_dcbs and evict_dcb
\* through close_pooled_dcb, get_backend_dcb on a failed reuse) is in the live
\* set of the worker when DCB::close is called on it, and so still is when the
\* operation returns, the remove of its destruction being yet to come.
C34_ClosedByPoolAreLive ==
    \A w \in Workers, s \in Servers :
        ~aborted =>
            /\ \A r \in {evict_dcbs(St(AllValid, 0), w, s, "ALL").st} :
                    r.refused \subseteq r.m_dcbs[w]
            /\ \A d \in PoolDcbs(PoolOf(w, s)) :
                    \A r \in {evict_dcb(St(AllValid, 0), w, d)} :
                        r.refused \subseteq r.m_dcbs[w]
            /\ \A c \in ClientIds :
                    (CanAcquire(w, c) /\ ~PoolBypassed(s) /\ Fresh(w, s) # <<>>) =>
                        \A r \in {get_backend_dcb(St(AllValid, 1), w, s, c, TRUE).st} :
                            r.refused \subseteq r.m_dcbs[w]

\* The timeouts of DCB d that have expired at the heartbeat of the state.
ExpiredTimeouts(d) ==
    {cause \in {"idle", "write"} :
        \/ /\ cause = "idle"
           /\ service.conn_idle_timeout # 0
           /\ mxs_clock - dcb[d].last_read > service.conn_idle_timeout * 10
        \/ /\ cause = "write"
           /\ service.net_write_timeout # 0
           /\ dcb[d].writeq_len > 0
           /\ mxs_clock - dcb[d].last_write > service.net_write_timeout * 10}

\* The DCBs a scan of worker w looks at: the polling client DCBs of m_dcbs.
Scanned(w) ==
    {d \in m_dcbs[w] : dcb[d].role = "CLIENT" /\ dcb[d].state = "POLLING"}

\* C33 (as stated): one scan synthesizes at most one hangup event for a DCB,
\* also when both its idle timeout and its write timeout have expired, and
\* it synthesizes hangups for polling client DCBs only.
C33_OneHangupPerDcb ==
    \A w \in Workers :
        \A r \in {process_timeouts(St(AllValid, 0), w)} :
            /\ \A d \in DcbIds : Cardinality({h \in r.hangups : h[1] = d}) <= 1
            /\ \A h \in r.hangups : h[1] \in Scanned(w)

\* C33 (amended): one scan synthesizes for a DCB one hangup event for each of
\* its timeouts that has expired, so two where both the idle and the write
\* timeout have; it synthesizes hangups for polling client DCBs of the live
\* set only, and none when the scan is not due.
C33_OneHangupPerExpiredTimeout ==
    \A w \in Workers :
        \A r \in {process_timeouts(St(AllValid, 0), w)} :
            r.hangups = IF mxs_clock >= m_next_timeout_check[w]
                        THEN {<<d, cause>> : d \in Scanned(w), cause \in {"idle", "write"}}
                                \cap {h \in DcbIds \X {"idle", "write"} :
                                            h[2] \in ExpiredTimeouts(h[1])}
                        ELSE {}

\* C33 witness: a tick has scanned a client whose idle and write timeouts had
\* both expired, and has synthesized two hangups for it.
C33_TwoHangupsForOneDcb ==
    /\ lastOp.op = "epoll_tick"
    /\ \E d \in DcbIds : <<d, "idle">> \in hangups /\ <<d, "write">> \in hangups

\* C35: m_evicting is false whenever no handler of the worker is running, and
\* no handler, whatever it nests of close, release, acquire, pool handler and
\* zombie drain, has entered evict_dcbs or evict_dcb with the flag set.
C35_FlagClearAndNotReentered ==
    /\ \A w \in Workers : ~m_evicting[w]
    /\ lastOp.op # "mxb_assert"

\* C35 witness: the worker is about to run a tick whose drain destroys a
\* client DCB; the close of its backend DCB, nested in the drain, runs the
\* eviction scan, which closes a pooled DCB under the flag, and pools the
\* backend DCB.
C35_PooledInsideTheDrain ==
    \E w \in Workers, s \in Servers :
        /\ ~aborted
        /\ m_zombies[w] # <<>>
        /\ \E r \in {epoll_tick(St(AllValid, 0), w, 0)} :
                /\ r.refused # {}
                /\ r.refused \subseteq PoolDcbs(PoolOf(w, s))
                /\ PoolDcbs(r.pe[w][s]) \ PoolDcbs(PoolOf(w, s)) # {}
                /\ ~r.m_evicting[w]
                /\ ~r.reentered

\* C32: a dispatch function that iterates up to next_worker_id finds, at
\* every index below the bound it has read, a constructed worker in the
\* published array, whenever it is called: no turn of its loop reads a null
\* or deleted worker, also after an init that failed.
C32_DispatchFindsWorkers ==
    /\ ~aborted
    /\ \A c \in Callers :
            call[c].pc = "submit" =>
                /\ call[c].i \in DOMAIN this_unit.ppWorkers
                /\ this_unit.ppWorkers[call[c].i] \in heap
                /\ \A r \in {submit(Ds, this_unit, c, TRUE)} : ~r.ub

\* Two workers are inside execute_serially or execute_concurrently at the
\* same time.
TwoWorkersInside ==
    \E a, b \in Workers : a # b /\ call[a].pc # "idle" /\ call[b].pc # "idle"

\* C38 (as stated): with the loops of all workers running, every call of
\* execute_serially and execute_concurrently returns, whichever threads make
\* the calls, two workers at the same time included.
C38_EveryCallReturns ==
    \A c \in NestedCallers : (call[c].pc # "idle") ~> (call[c].pc = "idle")

\* C38 (amended): with the loops of all workers running, a call of
\* execute_serially or execute_concurrently returns unless two workers are
\* inside such calls at the same time: the call of a thread that is no
\* worker returns, and so does the call of a worker while no other worker is
\* inside one.
C38_ReturnsUnlessTwoWorkersInside ==
    \A c \in NestedCallers :
        (call[c].pc # "idle") ~> (call[c].pc = "idle" \/ TwoWorkersInside)

\* C38 witness: the call a worker made from its loop has returned, the task
\* having run on every worker.
C38_WorkerCallReturned ==
    \E tag \in Tags :
        /\ lastOp.op = "return"
        /\ lastOp.w \in Workers
        /\ lastOp.rv.tag = tag
        /\ runs[tag].returned = NWorkers
        /\ runs[tag].ended = heap

\* C40: get_qc_stats and mxs_rworker_to_json wait on their semaphore only
\* when the submission of their task has succeeded, so that the wait ends
\* and they return.
C40_WaitsOnlyAfterSubmission ==
    \A c \in Callers :
        call[c].pc = "query_wait" => runs[call[c].tag].accepted # {}

====
